---- MODULE Spec2Model ----
(***************************************************************************)
(* Relay-cell pipeline, SENDME flow control and circuit cell queues of     *)
(* src/core/or/{relay.c, sendme.c, command.c}.                             *)
(*                                                                         *)
(* Handlers are written as operators from a "world" record (all mutable    *)
(* program state plus the return value of the call in field ret) to the    *)
(* world after the call; an action applies one handler to the current      *)
(* state.  Windows and queue sizes are scaled down; the scaled values are  *)
(* the bounds below.                                                       *)
(***************************************************************************)
EXTENDS Integers, Sequences, FiniteSets, TLC

\* ---------------------------------------------------------------- bounds
\* CIRCWINDOW_INCREMENT is 100 in the program; scaled.
CIRCWINDOW_INCREMENT == 2
\* CIRCWINDOW_START / CIRCWINDOW_INCREMENT, 10 in the program; scaled.
WindowsPerStart == 2
\* MAX_RELAY_EARLY_CELLS_PER_CIRCUIT is 8 in the program; scaled.
MAX_RELAY_EARLY_CELLS_PER_CIRCUIT == 1
\* RELAY_CIRC_CELL_QUEUE_SIZE_MIN is 50 in the program; scaled.
RELAY_CIRC_CELL_QUEUE_SIZE_MIN == 2
\* Value returned by cell_queue_highwatermark() (consensus, 256 by default).
cell_queue_highwatermark == 2
\* Value returned by cell_queue_lowwatermark() (consensus, 10 by default).
cell_queue_lowwatermark == 1
\* Cap on the number of cells given an identity in a run.
MaxCells == 5
\* Largest max argument of channel_flush_from_first_active_circuit().
MaxFlush == 2
\* Cap on the number of cells handed to one channel in a run.
MaxWritten == 3
\* Largest number of cells an inbuf holds when a stream packages.
MaxInbuf == 2
\* Width in bits of a circuit id on a channel with wide_circ_ids, 32 in
\* the program; scaled.
WideCircIdBits == 3
\* Width in bits of a circuit id on a channel without, 16 in the program;
\* scaled.
NarrowCircIdBits == 2
\* The number of AAAA requests that must have timed out before IPv6 is
\* taken for broken, 10 in the program; scaled.
IPV6_TIMEOUTS == 2
\* Number of AAAA requests made before a run of the resolver starts.
MaxIpv6Requests == 2
\* RESOLVE_MAX_TIMEOUT is 300 in the program; scaled.
RESOLVE_MAX_TIMEOUT == 2
\* Last second of a run of the resolver.
MaxNow == 2
\* Number of cached_resolve_t that can be allocated at a time.
MaxResolves == 4
\* Longest time to live of a DNS answer, in seconds.
MaxTtl == 1
\* An address is a wildcard when more than this many test requests were
\* answered with it; 5 in the program, scaled.
WILDCARD_ANSWERS == 1
\* ... and more than this many test requests were answered at all; 10 in
\* the program, scaled.
WILDCARD_REQUESTS == 2
\* Cap on the number of answers to test requests in a run.
MaxWildcardAnswers == 3

\* ------------------------------------------------------ program constants
CIRCWINDOW_START == WindowsPerStart * CIRCWINDOW_INCREMENT
CIRCWINDOW_START_MAX == CIRCWINDOW_START
\* Cap on the number of DATA cells one circuit packages in a run: enough
\* for two SENDMEs to fall due.
MaxPackaged == 2 * CIRCWINDOW_INCREMENT
\* Cap on the number of DATA cells one circuit receives in a run: one more
\* than a window.
MaxDataRecv == CIRCWINDOW_START + 1
END_CIRC_REASON_TORPROTOCOL == 1
END_CIRC_REASON_INTERNAL == 2
END_CIRC_REASON_HIBERNATING == 4
END_CIRC_REASON_RESOURCELIMIT == 5
END_CIRC_REASON_DESTROYED == 11
END_CIRC_REASON_FLAG_REMOTE == 512
SENDME_MAX_SUPPORTED_VERSION == 1
SENDME_TAG_LEN_CGO == 16
SENDME_TAG_LEN_TOR1 == 20

NULL == "NULL"
Circs == {"c1", "c2"}
Hops == {"h1", "h2"}
Chans == {"P", "N"}
Streams == {"s1", "s2", "s3"}

VARIABLES circ, hop, stream, cmux, chan, conf, next_id, last, dns
VARIABLES guard, cache, mem, or_conn, addressmap

vars ==
  <<circ, hop, stream, cmux, chan, conf, next_id, last, dns, guard, cache,
    mem, or_conn, addressmap>>

\* The state of the client's entry guard, of the microdescriptor cache, of
\* the memory accounting and of the Ext-ORPort connection, which the relay
\* path, the resolver and the cell handlers leave alone.
rest_vars == <<guard, cache, mem, or_conn, addressmap>>

RestIdle ==
  /\ guard = "NULL" /\ cache = "NULL" /\ mem = "NULL" /\ or_conn = "NULL"
  /\ addressmap = "NULL"

\* The mutable program state as one value, with the return value of the
\* call in progress (ret) and what the call did to the cell it was given.
World ==
  [circ |-> circ, hop |-> hop, stream |-> stream, cmux |-> cmux,
   chan |-> chan, conf |-> conf, ret |-> 0, called |-> FALSE,
   recognized |-> FALSE, delivered |-> FALSE, forwarded |-> FALSE,
   extended |-> FALSE, version_ok |-> FALSE, popped |-> 0,
   compared |-> FALSE, valid |-> FALSE]

Ret(w, r) == [w EXCEPT !.ret = r]

CIRCUIT_IS_ORIGIN(w, c) == w.circ[c].is_origin

\* circuit_mark_for_close(): the first call sets the flag and the reason,
\* later calls are ignored.
circuit_mark_for_close(w, c, reason) ==
  IF w.circ[c].marked_for_close
    THEN w
    ELSE [w EXCEPT !.circ[c].marked_for_close = TRUE,
                   !.circ[c].marked_for_close_reason = reason]

\* ------------------------------------------------------------ cell queues
QueueOf(direction) ==
  IF direction = "OUT" THEN "n_chan_cells" ELSE "p_chan_cells"

BlockedOf(direction) ==
  IF direction = "OUT" THEN "circuit_blocked_on_n_chan"
                       ELSE "circuit_blocked_on_p_chan"

ChanOf(w, c, direction) ==
  IF direction = "OUT" THEN w.circ[c].n_chan ELSE w.circ[c].p_chan

\* A variant of cell_queue_append() that inserts at the head.
cell_queue_append_at_head(queue, cell) == <<cell>> \o queue

\* cell_queue_append(): insert at the tail.
cell_queue_append(queue, cell) == Append(queue, cell)

\* cell_queue_pop(): the head is removed; the rest of the queue.
cell_queue_pop(queue) == Tail(queue)

\* The cell that cell_queue_pop() returns.
cell_queue_first(queue) == Head(queue)

\* update_circuit_on_cmux_(): the cmux of the direction's channel is told
\* the current length of the queue.
update_circuit_on_cmux(w, c, direction) ==
  [w EXCEPT !.cmux[c][direction] = Len(w.circ[c][QueueOf(direction)])]

\* The edge connections of a stream list.
p_streams(w, c) ==
  {s \in Streams : w.stream[s].on_circ = c /\ w.circ[c].is_origin}

n_streams(w, c) ==
  {s \in Streams : w.stream[s].on_circ = c /\ ~w.circ[c].is_origin}

connection_is_reading(w, s) == w.stream[s].read_event /\ w.stream[s].reading

\* A variant of the loop body that stops and starts a stream whatever its
\* read event, XOFF state and mark.
BlockStateOfAnyStream(w, s, block, stream_id) ==
  IF stream_id # 0 /\ w.stream[s].stream_id # stream_id
    THEN w.stream[s]
  ELSE IF block
    THEN [w.stream[s] EXCEPT !.reading = FALSE]
    ELSE [w.stream[s] EXCEPT !.reading = TRUE]

\* Body of the loop of set_block_state_for_streams() for one stream.
BlockStateOfStream(w, s, block, stream_id) ==
  IF stream_id # 0 /\ w.stream[s].stream_id # stream_id
    THEN w.stream[s]
  ELSE IF \/ ~w.stream[s].read_event
          \/ w.stream[s].xoff_received
          \/ w.stream[s].marked_for_close
    THEN w.stream[s]
  ELSE IF block
    THEN [w.stream[s] EXCEPT !.reading = FALSE]
    ELSE [w.stream[s] EXCEPT !.reading = TRUE]

set_block_state_for_streams(w, c, stream_list, block, stream_id) ==
  IF w.circ[c].conflux # NULL /\ block /\ w.circ[c].conflux = "can_send"
    THEN w
  ELSE IF w.circ[c].conflux # NULL /\ ~block
            /\ w.circ[c].conflux # "can_send"
    THEN w
  ELSE [w EXCEPT !.stream =
          [s \in Streams |->
             IF s \in stream_list
               THEN BlockStateOfStream(w, s, block, stream_id)
               ELSE w.stream[s]]]

\* A variant of set_circuit_blocked_on_chan() that sets the flag and leaves
\* the streams as they are.
set_circuit_blocked_on_chan_flag_only(w, c, ch, block) ==
  IF w.circ[c].n_chan = ch
    THEN [w EXCEPT !.circ[c].circuit_blocked_on_n_chan = block]
    ELSE [w EXCEPT !.circ[c].circuit_blocked_on_p_chan = block]

set_circuit_blocked_on_chan(w, c, ch, block) ==
  IF w.circ[c].n_chan = ch
    THEN set_block_state_for_streams(
           [w EXCEPT !.circ[c].circuit_blocked_on_n_chan = block],
           c, p_streams(w, c), block, 0)
    ELSE set_block_state_for_streams(
           [w EXCEPT !.circ[c].circuit_blocked_on_p_chan = block],
           c, n_streams(w, c), block, 0)

\* marked_circuit_free_cells() via circuits_handle_oom(): the out-of-memory
\* handler marks the circuit and clears both queues without telling the
\* cmux.
circuits_handle_oom(w, c) ==
  LET m == circuit_mark_for_close(w, c, END_CIRC_REASON_RESOURCELIMIT)
  IN [m EXCEPT !.circ[c].n_chan_cells = <<>>,
               !.circ[c].p_chan_cells = <<>>]

\* A variant of the choice of max_queue_size that takes the inbound limit
\* for the outbound queue and the outbound limit for the inbound queue.
max_queue_size_swapped(w, direction) ==
  IF direction = "OUT" THEN w.conf.max_circuit_cell_queue_size
                       ELSE w.conf.max_circuit_cell_queue_size_out

\* A variant of append_cell_to_circuit_queue() that queues the cell whatever
\* the state of the circuit and the length of the queue.
append_cell_to_circuit_queue_unchecked(w, c, ch, cell, direction, fromstream, oom) ==
  Ret(update_circuit_on_cmux(
        [w EXCEPT !.circ[c][QueueOf(direction)] = cell_queue_append(@, cell)],
        c, direction), 1)

\* The max_queue_size append_cell_to_circuit_queue() picks for a direction.
max_queue_size_for(w, direction) ==
  IF direction = "OUT" THEN w.conf.max_circuit_cell_queue_size_out
                       ELSE w.conf.max_circuit_cell_queue_size

\* append_cell_to_circuit_queue().  oom says whether cell_queues_check_size()
\* ran the out-of-memory handler on this circuit.
append_cell_to_circuit_queue(w, c, ch, cell, direction, fromstream, oom) ==
  LET queue == w.circ[c][QueueOf(direction)]
      circ_blocked == w.circ[c][BlockedOf(direction)]
      stream_list == IF direction = "OUT" THEN p_streams(w, c)
                                          ELSE n_streams(w, c)
      \* the steps on the world w2 with the cell queued
      reached_highwatermark(w2) ==
        IF ~circ_blocked
             /\ Len(w2.circ[c][QueueOf(direction)]) >= cell_queue_highwatermark
          THEN set_circuit_blocked_on_chan(w2, c, ch, TRUE)
          ELSE w2
      \* the steps on the world w3 after the watermark check
      fromstream_blocked(w3) ==
        IF circ_blocked /\ fromstream # 0
          THEN set_block_state_for_streams(w3, c, stream_list, TRUE,
                                           fromstream)
          ELSE w3
      \* the steps on the world w2 after cell_queues_check_size()
      queued(w2) ==
        IF w2.circ[c].marked_for_close THEN Ret(w2, 0)
        ELSE Ret(update_circuit_on_cmux(
                   fromstream_blocked(reached_highwatermark(w2)),
                   c, direction), 1)
      \* the steps on the world w1 after cell_queue_append()
      appended(w1) == queued(IF oom THEN circuits_handle_oom(w1, c) ELSE w1)
  IN IF w.circ[c].marked_for_close THEN Ret(w, 0)
     ELSE IF Len(queue) >= max_queue_size_for(w, direction) THEN Ret(w, -1)
     ELSE appended([w EXCEPT !.circ[c][QueueOf(direction)] =
                               cell_queue_append(queue, cell)])

\* ------------------------------------------------------------- sendme.c
\* A SENDME tag is the 20-byte buffer of record_cell_digest_on_circ(): its
\* first 16 bytes (b16) and its last 4 (b4, zero for a CGO tag).
tag_len_ok(tag_len) ==
  tag_len = SENDME_TAG_LEN_CGO \/ tag_len = SENDME_TAG_LEN_TOR1

TagBytes(t, n) == IF n = SENDME_TAG_LEN_CGO THEN <<t.b16>> ELSE <<t.b16, t.b4>>

get_accept_min_version(w) == w.conf.sendme_accept_min_version

\* pop_first_cell_digest(): the digest returned, for a list that has one.
first_cell_digest(w, c) == w.circ[c].sendme_last_digests[1]

\* A variant of pop_first_cell_digest() that takes the digest off the end
\* of the list.
pop_last_cell_digest(digests) ==
  IF digests = <<>> THEN <<>> ELSE SubSeq(digests, 1, Len(digests) - 1)

\* pop_first_cell_digest(): the list afterwards.
pop_first_cell_digest(digests) ==
  IF digests = <<>> THEN <<>> ELSE SubSeq(digests, 2, Len(digests))

v1_tag_matches(circ_digest, cell_tag, tag_len) ==
  TagBytes(circ_digest, tag_len) = TagBytes(cell_tag, tag_len)

\* A variant of cell_v1_is_valid() that checks the lengths and not the
\* bytes of the tag.
cell_v1_is_valid_unmatched(cell, circ_digest, circ_digest_len) ==
  /\ tag_len_ok(cell.tag_len)
  /\ cell.tag_len = circ_digest_len

cell_v1_is_valid(cell, circ_digest, circ_digest_len) ==
  /\ tag_len_ok(cell.tag_len)
  /\ cell.tag_len = circ_digest_len
  /\ v1_tag_matches(circ_digest, cell, cell.tag_len)

cell_version_can_be_handled(w, cell_version) ==
  /\ ~(get_accept_min_version(w) > SENDME_MAX_SUPPORTED_VERSION)
  /\ ~(cell_version < get_accept_min_version(w))
  /\ ~(cell_version > SENDME_MAX_SUPPORTED_VERSION)

\* relay_crypto_sendme_tag_len() of the layer sendme_is_valid() picks;
\* 0 stands for the unreachable branch of an origin circuit without hint.
circ_expects_tag_len(w, c, layer_hint) ==
  IF layer_hint # NULL THEN w.hop[layer_hint].tag_len
  ELSE IF ~CIRCUIT_IS_ORIGIN(w, c) THEN w.circ[c].tag_len
  ELSE 0

\* sendme_is_valid(): ret is 1 for valid, 0 for invalid.  version_ok, popped,
\* compared and valid record how far the validation went, which recorded
\* tag it removed and what it returned.
sendme_is_valid(w, c, layer_hint, payload) ==
  LET cell_version == IF payload.len = 0 THEN 0 ELSE payload.version
      no_digest == w.circ[c].sendme_last_digests = <<>>
      circ_digest == first_cell_digest(w, c)
      w1 == [w EXCEPT
               !.version_ok = TRUE,
               !.popped = IF no_digest THEN 0 ELSE circ_digest.idx,
               !.circ[c].n_sendme_checked = @ + 1,
               !.circ[c].sendme_last_digests = pop_first_cell_digest(@)]
  IN IF payload.len # 0 /\ ~payload.parse_ok THEN Ret(w, 0)
     ELSE IF ~cell_version_can_be_handled(w, cell_version) THEN Ret(w, 0)
     ELSE IF circ_expects_tag_len(w, c, layer_hint) = 0 THEN Ret(w, 0)
     ELSE IF no_digest THEN Ret(w1, 0)
     ELSE IF cell_version = 1
       THEN IF cell_v1_is_valid(payload, circ_digest,
                                circ_expects_tag_len(w, c, layer_hint))
              THEN Ret([w1 EXCEPT !.compared = TRUE, !.valid = TRUE], 1)
              ELSE Ret([w1 EXCEPT !.compared = TRUE], 0)
     ELSE Ret([w1 EXCEPT !.valid = TRUE], 1)

\* circuit_get_package_window() without congestion control: the hop's
\* window when there is a layer hint, the circuit's otherwise.
circuit_get_package_window(w, c, layer_hint) ==
  IF layer_hint # NULL THEN w.hop[layer_hint].package_window
                       ELSE w.circ[c].package_window

\* A variant of sendme_process_circuit_level_impl() without the check
\* against CIRCWINDOW_START_MAX.
sendme_process_circuit_level_impl_unbounded(w, c, layer_hint) ==
  IF CIRCUIT_IS_ORIGIN(w, c)
    THEN IF layer_hint = NULL THEN Ret(w, -END_CIRC_REASON_TORPROTOCOL)
         ELSE Ret([w EXCEPT !.hop[layer_hint].package_window =
                               @ + CIRCWINDOW_INCREMENT], 0)
    ELSE Ret([w EXCEPT !.circ[c].package_window =
                          @ + CIRCWINDOW_INCREMENT], 0)

sendme_process_circuit_level_impl(w, c, layer_hint) ==
  IF CIRCUIT_IS_ORIGIN(w, c)
    THEN IF layer_hint = NULL THEN Ret(w, -END_CIRC_REASON_TORPROTOCOL)
         ELSE IF w.hop[layer_hint].package_window + CIRCWINDOW_INCREMENT
                   > CIRCWINDOW_START_MAX
           THEN Ret(w, -END_CIRC_REASON_TORPROTOCOL)
           ELSE Ret([w EXCEPT !.hop[layer_hint].package_window =
                                 @ + CIRCWINDOW_INCREMENT], 0)
    ELSE IF w.circ[c].package_window + CIRCWINDOW_INCREMENT
              > CIRCWINDOW_START_MAX
           THEN Ret(w, -END_CIRC_REASON_TORPROTOCOL)
           ELSE Ret([w EXCEPT !.circ[c].package_window =
                                 @ + CIRCWINDOW_INCREMENT], 0)

sendme_process_circuit_level(w, c, layer_hint, payload) ==
  LET validated(v) ==
        IF v.ret = 0 THEN Ret(v, -END_CIRC_REASON_TORPROTOCOL)
        ELSE sendme_process_circuit_level_impl(v, c, layer_hint)
  IN validated(sendme_is_valid(w, c, layer_hint, payload))

\* A variant of sendme_circuit_data_received() that takes a whole window
\* off for one cell.
sendme_circuit_data_received_whole_window(w, c, layer_hint) ==
  IF CIRCUIT_IS_ORIGIN(w, c)
    THEN Ret([w EXCEPT !.hop[layer_hint].deliver_window =
                         @ - CIRCWINDOW_START],
             w.hop[layer_hint].deliver_window - CIRCWINDOW_START)
    ELSE Ret([w EXCEPT !.circ[c].deliver_window = @ - CIRCWINDOW_START],
             w.circ[c].deliver_window - CIRCWINDOW_START)

\* sendme_circuit_data_received(): ret is the window after the decrement.
sendme_circuit_data_received(w, c, layer_hint) ==
  IF CIRCUIT_IS_ORIGIN(w, c)
    THEN Ret([w EXCEPT !.hop[layer_hint].deliver_window = @ - 1],
             w.hop[layer_hint].deliver_window - 1)
    ELSE Ret([w EXCEPT !.circ[c].deliver_window = @ - 1],
             w.circ[c].deliver_window - 1)

\* sendme_note_circuit_data_packaged(): ret is the window afterwards.
sendme_note_circuit_data_packaged(w, c, cpath) ==
  IF CIRCUIT_IS_ORIGIN(w, c)
    THEN Ret([w EXCEPT !.hop[cpath].package_window = @ - 1],
             w.hop[cpath].package_window - 1)
    ELSE Ret([w EXCEPT !.circ[c].package_window = @ - 1],
             w.circ[c].package_window - 1)

\* A variant of circuit_sent_cell_for_sendme() that expects a SENDME after
\* every cell.
circuit_sent_cell_for_sendme_every_cell(w, c, cpath) == TRUE

\* circuit_sent_cell_for_sendme(): the cell being sent is the one that
\* brings the package window to a multiple of the increment.
circuit_sent_cell_for_sendme(w, c, cpath) ==
  LET window == IF cpath # NULL THEN w.hop[cpath].package_window
                                ELSE w.circ[c].package_window
  IN /\ window # CIRCWINDOW_START
     /\ (window - 1) % CIRCWINDOW_INCREMENT = 0

\* relay_crypto_get_sendme_tag(): the running digest of the layer after the
\* cell just encrypted; no two cells of a circuit share one.
relay_crypto_get_sendme_tag(w, c, cpath) ==
  LET len == IF cpath # NULL THEN w.hop[cpath].tag_len ELSE w.circ[c].tag_len
      d == w.circ[c].n_digests_recorded + 1
  IN [tag_len |-> len, b16 |-> d,
      b4 |-> IF len = SENDME_TAG_LEN_CGO THEN 0 ELSE d]

\* record_cell_digest_on_circ(): the tag, zero-padded to 20 bytes, is added
\* at the end of the list.
record_cell_digest_on_circ(w, c, tag) ==
  [w EXCEPT !.circ[c].sendme_last_digests =
              Append(@, [b16 |-> tag.b16, b4 |-> tag.b4,
                         idx |-> w.circ[c].n_digests_recorded + 1]),
            !.circ[c].n_digests_recorded = @ + 1]

sendme_record_cell_digest_on_circ(w, c, cpath) ==
  IF ~circuit_sent_cell_for_sendme(w, c, cpath)
    THEN w
    ELSE record_cell_digest_on_circ(w, c,
                                    relay_crypto_get_sendme_tag(w, c, cpath))

\* -------------------------------------------------- relay.c, sending side
circuit_package_relay_cell(w, c, cell, cell_direction, layer_hint, on_stream, oom) ==
  IF w.circ[c].marked_for_close THEN Ret(w, 0)
  ELSE IF cell_direction = "OUT" /\ w.circ[c].n_chan = NULL THEN Ret(w, 0)
  ELSE IF cell_direction = "OUT" /\ ~CIRCUIT_IS_ORIGIN(w, c) THEN Ret(w, 0)
  ELSE IF cell_direction = "IN" /\ CIRCUIT_IS_ORIGIN(w, c) THEN Ret(w, 0)
  ELSE append_cell_to_circuit_queue(w, c, ChanOf(w, c, cell_direction), cell,
                                    cell_direction, on_stream, oom)

\* A variant of use_relay_early() that does not look at the number of
\* RELAY_EARLY cells that remain.
use_relay_early_unbounded(w, c, cell_direction, relay_command, cpath_layer) ==
  /\ cell_direction = "OUT"
  /\ \/ relay_command \in {"EXTEND", "EXTEND2"}
     \/ cpath_layer # "h1"

\* Whether relay_send_command_from_edge_() makes the cell a RELAY_EARLY
\* cell.  The first hop of an origin circuit is "h1".
use_relay_early(w, c, cell_direction, relay_command, cpath_layer) ==
  /\ cell_direction = "OUT"
  /\ w.circ[c].remaining_relay_early_cells > 0
  /\ \/ relay_command \in {"EXTEND", "EXTEND2"}
     \/ cpath_layer # "h1"

\* relay_send_command_from_edge_() on a circuit without conflux, for a
\* payload that fits the cell.
relay_send_command_from_edge(w, stream_id, c, relay_command, cpath_layer, oom) ==
  LET cell_direction == IF CIRCUIT_IS_ORIGIN(w, c) THEN "OUT" ELSE "IN"
      early == use_relay_early(w, c, cell_direction, relay_command,
                               cpath_layer)
      w1 == IF early
              THEN [w EXCEPT !.circ[c].remaining_relay_early_cells = @ - 1]
              ELSE w
      cell == [id |-> 0,
               command |-> IF early THEN "RELAY_EARLY" ELSE "RELAY"]
      \* the steps on the world after
      \* sendme_note_circuit_data_packaged()
      noted(n) ==
        IF n.ret < 0
          THEN Ret(circuit_mark_for_close(n, c, END_CIRC_REASON_TORPROTOCOL),
                   -1)
          ELSE Ret(n, 0)
      \* sendme_record_cell_digest_on_circ() on the world the cell was
      \* queued in
      recorded(rec) ==
        noted(sendme_note_circuit_data_packaged(
                [rec EXCEPT !.circ[c].n_data_packaged = @ + 1],
                c, cpath_layer))
      \* the steps on the world p after circuit_package_relay_cell()
      packaged(p) ==
        IF p.ret < 0
          THEN Ret(circuit_mark_for_close(p, c, END_CIRC_REASON_INTERNAL), -1)
        ELSE IF p.ret = 0 THEN Ret(p, 0)
        ELSE IF relay_command = "DATA"
          THEN recorded(sendme_record_cell_digest_on_circ(p, c, cpath_layer))
        ELSE Ret(p, 0)
  IN packaged(circuit_package_relay_cell(w1, c, cell, cell_direction,
                                         cpath_layer, stream_id, oom))

\* send_circuit_level_sendme(): the payload is empty for version 0 and
\* carries the layer's tag for version 1.
send_circuit_level_sendme(w, c, layer_hint, oom) ==
  LET sent(r) ==
        IF r.ret < 0 THEN Ret(r, -1)
        ELSE Ret([r EXCEPT !.circ[c].n_sendme_sent = @ + 1], 0)
  IN sent(relay_send_command_from_edge(w, 0, c, "SENDME", layer_hint, oom))

deliver_window_of(w, c, layer_hint) ==
  IF layer_hint # NULL THEN w.hop[layer_hint].deliver_window
                       ELSE w.circ[c].deliver_window

sendme_get_inc_count == CIRCWINDOW_INCREMENT

\* A variant of sendme_circuit_consider_sending() that never finds the
\* deliver window low enough.
sendme_circuit_consider_sending_never(w, c, layer_hint, oom) == w

RECURSIVE sendme_circuit_consider_sending(_, _, _, _)
sendme_circuit_consider_sending(w, c, layer_hint, oom) ==
  IF deliver_window_of(w, c, layer_hint)
       <= CIRCWINDOW_START - sendme_get_inc_count
    THEN LET w1 == IF layer_hint # NULL
                     THEN [w EXCEPT !.hop[layer_hint].deliver_window =
                                       @ + sendme_get_inc_count]
                     ELSE [w EXCEPT !.circ[c].deliver_window =
                                       @ + sendme_get_inc_count]
             sent(snd) ==
               IF snd.ret < 0 THEN snd
               ELSE sendme_circuit_consider_sending(snd, c, layer_hint, oom)
         IN sent(send_circuit_level_sendme(w1, c, layer_hint, oom))
    ELSE w

\* ------------------------------------------------------ edge connections
connection_start_reading(w, s) ==
  IF w.stream[s].read_event THEN [w EXCEPT !.stream[s].reading = TRUE] ELSE w

connection_stop_reading(w, s) == [w EXCEPT !.stream[s].reading = FALSE]

edge_uses_cpath(w, s, layer_hint) == w.stream[s].cpath_layer = layer_hint

StreamsOf(w, c) ==
  IF CIRCUIT_IS_ORIGIN(w, c) THEN p_streams(w, c) ELSE n_streams(w, c)

circuit_queue_streams_are_blocked(w, c) ==
  IF CIRCUIT_IS_ORIGIN(w, c) THEN w.circ[c].circuit_blocked_on_n_chan
                             ELSE w.circ[c].circuit_blocked_on_p_chan

\* circuit_consider_stop_edge_reading(): ret is 1 when the package window
\* is used up, and then the streams of the layer stop reading.
circuit_consider_stop_edge_reading(w, c, layer_hint) ==
  IF circuit_get_package_window(w, c, layer_hint) <= 0
    THEN Ret([w EXCEPT !.stream =
                [s \in Streams |->
                   IF s \in StreamsOf(w, c) /\ edge_uses_cpath(w, s, layer_hint)
                     THEN [w.stream[s] EXCEPT !.reading = FALSE]
                     ELSE w.stream[s]]], 1)
    ELSE Ret(w, 0)

connection_edge_send_command(w, s, relay_command, oom) ==
  IF w.stream[s].marked_for_close THEN Ret(w, 0)
  ELSE IF w.circ[w.stream[s].on_circ].marked_for_close THEN Ret(w, -1)
  ELSE relay_send_command_from_edge(w, w.stream[s].stream_id,
                                    w.stream[s].on_circ, relay_command,
                                    w.stream[s].cpath_layer, oom)

\* The loop of connection_edge_package_raw_inbuf(): avail is the number of
\* cells the inbuf of the stream fills, max_cells the cells the caller still
\* allows (0 for no limit).  Stream-level windows are not modelled.
RECURSIVE PackageLoop(_, _, _, _, _)
PackageLoop(w, s, avail, max_cells, oom) ==
  LET c == w.stream[s].on_circ
      \* the steps on the world after
      \* connection_edge_send_command()
      sent(snd) ==
        IF snd.ret < 0 THEN Ret(snd, 0)
        ELSE IF max_cells = 1 THEN Ret(snd, 0)
        ELSE PackageLoop(snd, s, avail - 1,
                         IF max_cells = 0 THEN 0 ELSE max_cells - 1, oom)
      \* the steps on the world after
      \* circuit_consider_stop_edge_reading()
      considered(stop) ==
        IF stop.ret = 1 THEN Ret(stop, 0)
        ELSE IF avail = 0 THEN Ret(w, 0)
        ELSE sent(connection_edge_send_command(w, s, "DATA", oom))
  IN considered(circuit_consider_stop_edge_reading(w, c,
                                                   w.stream[s].cpath_layer))

connection_edge_package_raw_inbuf(w, s, avail, max_cells, oom) ==
  IF w.stream[s].marked_for_close THEN Ret(w, 0)
  ELSE PackageLoop(w, s, avail, max_cells, oom)

\* circuit_resume_edge_reading() with circuit_resume_edge_reading_helper():
\* the streams of the layer start reading again, and the one stream that
\* has data in its inbuf (rs, NULL for none; avail cells) packages as many
\* cells as the package window and the high watermark leave room for.
circuit_resume_edge_reading(w, c, layer_hint, rs, avail, oom) ==
  LET list == {s \in StreamsOf(w, c) :
                 /\ ~w.stream[s].marked_for_close
                 /\ edge_uses_cpath(w, s, layer_hint)}
      w1 == [w EXCEPT !.stream =
               [s \in Streams |->
                  IF s \in list /\ ~w.stream[s].xoff_received
                       /\ w.stream[s].read_event
                    THEN [w.stream[s] EXCEPT !.reading = TRUE]
                    ELSE w.stream[s]]]
      window == circuit_get_package_window(w, c, layer_hint)
      cells_on_queue ==
        IF CIRCUIT_IS_ORIGIN(w, c) THEN Len(w.circ[c].n_chan_cells)
                                   ELSE Len(w.circ[c].p_chan_cells)
      max_to_package ==
        IF cell_queue_highwatermark - cells_on_queue < window
          THEN cell_queue_highwatermark - cells_on_queue
          ELSE window
  IN IF circuit_queue_streams_are_blocked(w, c) THEN w
     ELSE IF w.circ[c].conflux # NULL /\ w.circ[c].conflux # "can_send" THEN w
     ELSE IF rs \notin list \/ avail = 0 THEN w1
     ELSE IF max_to_package <= 0 THEN w1
     ELSE connection_edge_package_raw_inbuf(w1, rs, avail, max_to_package,
                                            oom)

\* ------------------------------------------------ relay.c, receiving side
relay_lookup_conn(w, c, msg, cell_direction, layer_hint) ==
  LET found ==
        {s \in StreamsOf(w, c) :
           /\ msg.stream_id = w.stream[s].stream_id
           /\ ~w.stream[s].marked_for_close
           /\ IF CIRCUIT_IS_ORIGIN(w, c)
                THEN edge_uses_cpath(w, s, layer_hint)
                ELSE cell_direction = "OUT"}
  IN IF msg.stream_id = 0 \/ found = {} THEN NULL
     ELSE CHOOSE s \in found : TRUE

process_sendme_cell(w, c, msg, conn, layer_hint) ==
  LET processed(r) ==
        IF r.ret < 0 THEN r
        ELSE Ret(circuit_resume_edge_reading(r, c, layer_hint, msg.resume,
                                             msg.avail, msg.oom), 0)
  IN IF msg.stream_id = 0
       THEN processed(sendme_process_circuit_level(w, c, layer_hint,
                                                   msg.payload))
     ELSE Ret(w, 0)

\* A variant of handle_relay_msg() that hands every EXTEND and EXTEND2
\* message for stream 0 to circuit_extend(), RELAY_EARLY or not.
handle_relay_msg_extends_nonearly(w, c, msg, conn, layer_hint) ==
  IF msg.command = "DATA"
    THEN IF msg.stream_id = 0 THEN Ret(w, 0)
         ELSE IF conn = NULL THEN Ret(w, 0)
         ELSE IF msg.sub < 0 THEN Ret(w, -END_CIRC_REASON_TORPROTOCOL)
         ELSE Ret(w, 0)
  ELSE IF msg.command \in {"EXTEND", "EXTEND2"}
    THEN IF msg.stream_id # 0 THEN Ret(w, 0)
         ELSE Ret([w EXCEPT !.extended = TRUE], msg.sub)
  ELSE IF msg.command = "CONNECTED"
    THEN IF conn # NULL THEN Ret(w, -END_CIRC_REASON_TORPROTOCOL)
         ELSE Ret(w, 0)
  ELSE IF msg.command = "SENDME"
    THEN process_sendme_cell(w, c, msg, conn, layer_hint)
  ELSE Ret(w, 0)

\* handle_relay_msg() for the commands of the model; msg.sub is the result
\* of the callee outside relay.c that the command ends in
\* (sendme_stream_data_received(), circuit_extend()).
handle_relay_msg(w, c, msg, conn, layer_hint) ==
  IF msg.command = "DATA"
    THEN IF msg.stream_id = 0 THEN Ret(w, 0)
         ELSE IF conn = NULL THEN Ret(w, 0)
         ELSE IF msg.sub < 0 THEN Ret(w, -END_CIRC_REASON_TORPROTOCOL)
         ELSE Ret(w, 0)
  ELSE IF msg.command \in {"EXTEND", "EXTEND2"}
    THEN IF msg.stream_id # 0 THEN Ret(w, 0)
         ELSE IF ~msg.is_relay_early /\ ~w.conf.AllowNonearlyExtend
           THEN Ret(w, 0)
         ELSE Ret([w EXCEPT !.extended = TRUE], msg.sub)
  ELSE IF msg.command = "CONNECTED"
    THEN IF conn # NULL THEN Ret(w, -END_CIRC_REASON_TORPROTOCOL)
         ELSE Ret(w, 0)
  ELSE IF msg.command = "SENDME"
    THEN process_sendme_cell(w, c, msg, conn, layer_hint)
  ELSE Ret(w, 0)

\* connection_edge_process_relay_cell() on a circuit without conflux, for
\* a stream that is open.
connection_edge_process_relay_cell(w, c, msg, conn, layer_hint) ==
  LET \* the steps on the world d after
      \* sendme_circuit_data_received()
      received(d) ==
        IF d.ret < 0 THEN Ret(d, -END_CIRC_REASON_TORPROTOCOL)
        ELSE handle_relay_msg(
               sendme_circuit_consider_sending(d, c, layer_hint, msg.oom),
               c, msg, conn, layer_hint)
  IN IF msg.stream_id = 0 /\ msg.command = "CONNECTED" THEN Ret(w, 0)
     ELSE IF msg.command = "DATA"
       THEN received(sendme_circuit_data_received(
                       [w EXCEPT !.circ[c].n_data_received = @ + 1],
                       c, layer_hint))
     ELSE handle_relay_msg(w, c, msg, conn, layer_hint)

\* A variant of the error label that returns the reason and leaves the
\* closing of the circuit to the caller.
error_left_to_caller(w, c, reason) == Ret(w, reason)

\* The error label of circuit_receive_relay_cell(): reason is negative.
error(w, c, reason) == Ret(circuit_mark_for_close(w, c, -reason), reason)

\* circuit_receive_relay_cell() on a circuit without rend_splice.
\* cell.crypt is the outcome of relay_decrypt_cell() ("fail", "recognized"
\* with cell.layer_hint, or "unrecognized"), cell.decode_ok that of
\* relay_msg_decode_cell_in_place().
circuit_receive_relay_cell(w, c, cell, cell_direction) ==
  LET layer_hint == cell.layer_hint
      w0 == [w EXCEPT !.called = TRUE]
      conn == relay_lookup_conn(w0, c, cell, cell_direction, layer_hint)
      \* the steps on the world e after
      \* connection_edge_process_relay_cell()
      processed(e) == IF e.ret < 0 THEN error(e, c, e.ret) ELSE Ret(e, 0)
      ch == IF cell_direction = "OUT" THEN w.circ[c].n_chan
                                      ELSE w.circ[c].p_chan
      \* the steps on the world app after
      \* append_cell_to_circuit_queue()
      appended(app) ==
        IF app.ret < 0 THEN error(app, c, -END_CIRC_REASON_RESOURCELIMIT)
        ELSE Ret([app EXCEPT !.forwarded = (app.ret = 1)], 0)
  IN IF w.circ[c].marked_for_close THEN Ret(w0, 0)
     ELSE IF cell.crypt = "fail"
       THEN error(w0, c, -END_CIRC_REASON_INTERNAL)
     ELSE IF cell.crypt = "recognized"
       THEN IF ~cell.decode_ok
              THEN Ret([w0 EXCEPT !.recognized = TRUE],
                       -END_CIRC_REASON_TORPROTOCOL)
            ELSE IF w.circ[c].purpose = "PATH_BIAS_TESTING"
              THEN Ret([w0 EXCEPT !.recognized = TRUE], 0)
            ELSE processed(connection_edge_process_relay_cell(
                             [w0 EXCEPT !.recognized = TRUE,
                                        !.delivered = TRUE],
                             c, cell, conn,
                             IF cell_direction = "OUT" THEN NULL
                                                       ELSE layer_hint))
     ELSE IF cell_direction = "IN" /\ CIRCUIT_IS_ORIGIN(w, c)
       THEN IF w.circ[c].purpose = "PATH_BIAS_TESTING"
              THEN error(w0, c, -END_CIRC_REASON_TORPROTOCOL)
              ELSE Ret(w0, 0)
     ELSE IF ch = NULL THEN error(w0, c, -END_CIRC_REASON_TORPROTOCOL)
     ELSE appended(append_cell_to_circuit_queue(w0, c, ch, [id |-> 0],
                                                cell_direction, 0, cell.oom))

\* command_process_relay_cell(): a relay cell for circuit c arrives on
\* channel ch.
command_process_relay_cell(w, c, ch, cell) ==
  LET direction == IF ~CIRCUIT_IS_ORIGIN(w, c) /\ ch = w.circ[c].p_chan
                     THEN "OUT" ELSE "IN"
      early == cell.cell_command = "RELAY_EARLY"
      w1 == IF early
              THEN [w EXCEPT !.circ[c].remaining_relay_early_cells = @ - 1]
              ELSE w
  IN IF w.circ[c].state = "ONIONSKIN_PENDING"
       THEN circuit_mark_for_close(w, c, END_CIRC_REASON_TORPROTOCOL)
     ELSE IF early /\ direction = "IN"
       THEN circuit_mark_for_close(w, c, END_CIRC_REASON_TORPROTOCOL)
     ELSE IF early /\ w.circ[c].remaining_relay_early_cells = 0
       THEN circuit_mark_for_close(w, c, END_CIRC_REASON_TORPROTOCOL)
     ELSE circuit_receive_relay_cell(w1, c, cell, direction)

\* ----------------------------------------------------- flushing a channel
DirOn(w, c, ch) == IF w.circ[c].n_chan = ch THEN "OUT" ELSE "IN"

\* The circuits the cmux of a channel holds as active: those it believes
\* to have cells queued for the channel.
ActiveCircuits(w, ch) ==
  {c \in w.conf.circuits :
     /\ ch \in {w.circ[c].n_chan, w.circ[c].p_chan}
     /\ w.cmux[c][DirOn(w, c, ch)] > 0}

\* One pass of the loop of channel_flush_from_first_active_circuit() on a
\* channel without queued DESTROY cells: pick.circ is the circuit
\* circuitmux_get_first_active_circuit() returns, pick.write_ok the result
\* of channel_write_packed_cell().  The cell popped is noted in the
\* channel's handed log; flushed is 1 when it was written.
FlushOne(w, ch, pick) ==
  LET c == pick.circ
      direction == DirOn(w, c, ch)
      queue == w.circ[c][QueueOf(direction)]
      circ_blocked == w.circ[c][BlockedOf(direction)]
      cell == cell_queue_first(queue)
      w1 == [w EXCEPT !.circ[c][QueueOf(direction)] = cell_queue_pop(queue),
                      !.chan[ch].handed =
                         Append(@, [circ |-> c, id |-> cell.id,
                                    ok |-> pick.write_ok])]
      w2 == update_circuit_on_cmux(w1, c, direction)
      w3 == IF circ_blocked
               /\ Len(w2.circ[c][QueueOf(direction)]) <= cell_queue_lowwatermark
              THEN set_circuit_blocked_on_chan(w2, c, ch, FALSE)
              ELSE w2
  IN IF queue = <<>>
       THEN [w |-> circuit_mark_for_close(
                     [w EXCEPT !.cmux[c][direction] = 0], c,
                     END_CIRC_REASON_INTERNAL),
             flushed |-> 0]
     ELSE IF ~pick.write_ok
       THEN [w |-> [w1 EXCEPT !.chan[ch].marked_for_close = TRUE],
             flushed |-> 0]
     ELSE [w |-> w3, flushed |-> 1]

\* The outcomes of channel_flush_from_first_active_circuit(chan, max) from
\* the pass that starts with n_flushed cells written: one for each way the
\* cmux picks among its active circuits and each way the writes end.  ret
\* is n_flushed.
RECURSIVE FlushLoop(_, _, _, _)
FlushLoop(w, ch, max, n_flushed) ==
  IF n_flushed >= max \/ ActiveCircuits(w, ch) = {}
    THEN {Ret(w, n_flushed)}
    ELSE UNION {FlushLoop(FlushOne(w, ch, pick).w, ch, max,
                          n_flushed + FlushOne(w, ch, pick).flushed) :
                  pick \in [circ : ActiveCircuits(w, ch),
                            write_ok : BOOLEAN]}

channel_flush_from_first_active_circuit(w, ch, max) ==
  FlushLoop(w, ch, max, 0)

\* cell_queue_clear()
cell_queue_clear(queue) == <<>>

circuit_clear_cell_queue(w, c, ch) ==
  LET direction == DirOn(w, c, ch)
  IN update_circuit_on_cmux(
       [w EXCEPT !.circ[c][QueueOf(direction)] = cell_queue_clear(@)],
       c, direction)

\* RELAY_CIRC_CELL_QUEUE_SIZE_DEFAULT is 50 times the minimum in the
\* program; here the value right above the minimum.
RELAY_CIRC_CELL_QUEUE_SIZE_DEFAULT == RELAY_CIRC_CELL_QUEUE_SIZE_MIN + 1

\* The values the consensus parameters circ_max_cell_queue_size and
\* circ_max_cell_queue_size_out take.
QueueSizeParams ==
  RELAY_CIRC_CELL_QUEUE_SIZE_MIN .. RELAY_CIRC_CELL_QUEUE_SIZE_DEFAULT

relay_consensus_has_changed(w, size, size_out) ==
  [w EXCEPT !.conf.max_circuit_cell_queue_size = size,
            !.conf.max_circuit_cell_queue_size_out = size_out]

\* ------------------------------------------------------------ the state
\* A circuit right after it has been opened.  c1 is an or_circuit_t between
\* channels P and N, c2 an origin_circuit_t with the hops h1 and h2 on
\* channel N.
NewCircuit(is_origin, n_chan, purpose, tag_len, conflux) ==
  [is_origin |-> is_origin,
   n_chan |-> n_chan,
   p_chan |-> IF is_origin THEN NULL ELSE "P",
   purpose |-> purpose,
   state |-> "OPEN",
   marked_for_close |-> FALSE,
   marked_for_close_reason |-> 0,
   package_window |-> CIRCWINDOW_START,
   deliver_window |-> CIRCWINDOW_START,
   sendme_last_digests |-> <<>>,
   n_chan_cells |-> <<>>,
   p_chan_cells |-> <<>>,
   circuit_blocked_on_n_chan |-> FALSE,
   circuit_blocked_on_p_chan |-> FALSE,
   conflux |-> conflux,
   remaining_relay_early_cells |-> MAX_RELAY_EARLY_CELLS_PER_CIRCUIT,
   tag_len |-> tag_len,
   n_digests_recorded |-> 0,
   n_sendme_checked |-> 0,
   n_data_packaged |-> 0,
   n_data_received |-> 0,
   n_sendme_sent |-> 0]

NewHop(tag_len) ==
  [package_window |-> CIRCWINDOW_START,
   deliver_window |-> CIRCWINDOW_START,
   tag_len |-> tag_len]

NewStream(c, stream_id, cpath_layer, read_event, reading, xoff, marked) ==
  [on_circ |-> c, stream_id |-> stream_id, cpath_layer |-> cpath_layer,
   read_event |-> read_event, reading |-> reading,
   xoff_received |-> xoff, marked_for_close |-> marked]

TagLens == {SENDME_TAG_LEN_CGO, SENDME_TAG_LEN_TOR1}

NoCall == [op |-> "none"]

InitRest ==
  /\ hop = [h \in Hops |->
              NewHop(IF h = "h1" THEN SENDME_TAG_LEN_TOR1
                                 ELSE SENDME_TAG_LEN_CGO)]
  /\ cmux = [c \in Circs |-> [d \in {"OUT", "IN"} |-> 0]]
  /\ chan = [ch \in Chans |-> [handed |-> <<>>, marked_for_close |-> FALSE]]
  /\ next_id = 1
  /\ last = NoCall
  /\ dns = NULL
  /\ RestIdle

\* What the surroundings of the circuit do in a run: send cells that fail
\* to decrypt or decode or are to be passed on ("garbage"), send relay
\* messages of the commands named, fill the inbufs of its streams ("inbuf"),
\* take cells from its channels ("flush").
EnvControl == {"garbage", "EXTEND", "EXTEND2", "CONNECTED", "DROP"}
EnvSource == {"DATA", "flush"}
EnvSink == {"SENDME", "inbuf", "flush"}

\* The runs of the relay pipeline: one circuit (focus) with its streams
\* open and reading, under each consensus the feed is sensitive to.
Scenarios ==
  LET Base == [focus |-> "c1", env |-> EnvSource, n_chan |-> "N",
               purpose |-> "C_GENERAL", tag_len |-> SENDME_TAG_LEN_TOR1,
               allow |-> FALSE, accept |-> 0]
  IN {[Base EXCEPT !.focus = f] : f \in Circs}
     \cup {[Base EXCEPT !.env = EnvControl, !.n_chan = n, !.allow = a] :
             n \in {"N", NULL}, a \in BOOLEAN}
     \cup {[Base EXCEPT !.env = EnvControl, !.focus = "c2", !.purpose = pp,
                        !.allow = a] :
             pp \in {"C_GENERAL", "PATH_BIAS_TESTING"}, a \in BOOLEAN}
     \cup {[Base EXCEPT !.env = EnvSink, !.tag_len = tl, !.accept = v] :
             tl \in TagLens, v \in 0 .. 2}
     \cup {[Base EXCEPT !.env = EnvSink, !.focus = "c2", !.accept = v] :
             v \in 0 .. 2}

Init ==
  /\ \E sc \in Scenarios :
       /\ circ = [c \in Circs |->
                    IF c = "c1"
                      THEN NewCircuit(FALSE, sc.n_chan, "OR", sc.tag_len, NULL)
                      ELSE NewCircuit(TRUE, "N", sc.purpose, sc.tag_len,
                                      NULL)]
       /\ conf = [circuits |-> {sc.focus},
                  env |-> sc.env,
                  max_circuit_cell_queue_size |->
                    RELAY_CIRC_CELL_QUEUE_SIZE_DEFAULT,
                  max_circuit_cell_queue_size_out |->
                    RELAY_CIRC_CELL_QUEUE_SIZE_DEFAULT,
                  AllowNonearlyExtend |-> sc.allow,
                  sendme_accept_min_version |-> sc.accept]
  /\ stream = [s \in Streams |->
                 IF s = "s1"
                   THEN NewStream("c1", 1, NULL, TRUE, TRUE, FALSE, FALSE)
                 ELSE IF s = "s2"
                   THEN NewStream("c2", 1, "h2", TRUE, TRUE, FALSE, FALSE)
                   ELSE NewStream("c2", 2, "h2", TRUE, TRUE, FALSE, FALSE)]
  /\ InitRest

\* What an action leaves behind: the state after the call, and in last the
\* call, its inputs, its result and the state it started from.
Commit(w2, call) ==
  /\ circ' = w2.circ
  /\ hop' = w2.hop
  /\ stream' = w2.stream
  /\ cmux' = w2.cmux
  /\ chan' = w2.chan
  /\ conf' = w2.conf
  /\ last' = call
  /\ dns' = dns
  /\ UNCHANGED rest_vars

\* ----------------------------------------------- inputs of the relay path
NoPayload ==
  [len |-> 0, parse_ok |-> TRUE, version |-> 0, tag_len |-> 0,
   b16 |-> 0, b4 |-> 0]

\* SENDME payloads: empty (version 0), unparseable, version 2, and version 1
\* with one of the two oldest recorded tags or a tag never recorded, in
\* either length.
SendmePayloads(c) ==
  LET digests == circ[c].sendme_last_digests
      known == {digests[i] : i \in 1 .. (IF Len(digests) < 2 THEN Len(digests)
                                                             ELSE 2)}
      tags == {[b16 |-> d.b16, b4 |-> d.b4] : d \in known}
                \cup {[b16 |-> 0, b4 |-> 0]}
  IN {NoPayload, [NoPayload EXCEPT !.len = 1, !.parse_ok = FALSE],
      [NoPayload EXCEPT !.len = 1, !.version = 2]}
     \cup {[len |-> 1, parse_ok |-> TRUE, version |-> 1, tag_len |-> n,
            b16 |-> t.b16, b4 |-> IF n = SENDME_TAG_LEN_CGO THEN 0 ELSE t.b4] :
             t \in tags, n \in TagLens}

BaseCell ==
  [cell_command |-> "RELAY", crypt |-> "recognized", layer_hint |-> NULL,
   decode_ok |-> TRUE, command |-> "DROP", stream_id |-> 0,
   is_relay_early |-> FALSE, payload |-> NoPayload, sub |-> 0, oom |-> FALSE,
   resume |-> NULL, avail |-> 0]

\* The relay messages of a recognized cell.
RelayMsgs(c) ==
  {[BaseCell EXCEPT !.decode_ok = FALSE]}
  \cup {[BaseCell EXCEPT !.command = "DATA", !.stream_id = id, !.sub = r] :
          id \in {0, 1, 3}, r \in {-1, 0}}
  \cup {[BaseCell EXCEPT !.command = "SENDME", !.payload = p, !.resume = rs,
                          !.avail = IF rs = NULL THEN 0 ELSE MaxInbuf] :
          p \in SendmePayloads(c),
          rs \in {NULL} \cup {s \in Streams : stream[s].on_circ = c
                                                 /\ stream[s].stream_id = 1}}
  \cup {[BaseCell EXCEPT !.command = "SENDME", !.stream_id = 1, !.sub = r] :
          r \in {-1, 0}}
  \cup {[BaseCell EXCEPT !.command = x, !.sub = r, !.cell_command = cc,
                          !.is_relay_early = (cc = "RELAY_EARLY")] :
          x \in {"EXTEND", "EXTEND2"}, r \in {-1, 0},
          cc \in {"RELAY", "RELAY_EARLY"}}
  \cup {[BaseCell EXCEPT !.command = "EXTEND", !.stream_id = 1]}
  \cup {[BaseCell EXCEPT !.command = "CONNECTED", !.stream_id = id] :
          id \in {0, 1, 3}}
  \cup {BaseCell}

\* What relay_decrypt_cell() and relay_msg_decode_cell_in_place() can make
\* of a relay cell for circuit c from channel ch: a relay recognizes only
\* outbound cells, an origin recognizes a cell at one of its hops.
CellsOn(c, ch) ==
  {[BaseCell EXCEPT !.crypt = "fail"]}
  \cup {[BaseCell EXCEPT !.crypt = "unrecognized", !.oom = o,
                          !.cell_command = cc] :
          o \in BOOLEAN, cc \in {"RELAY", "RELAY_EARLY"}}
  \cup IF circ[c].is_origin
         THEN {[m EXCEPT !.layer_hint = h] : m \in RelayMsgs(c), h \in Hops}
         ELSE IF ch = circ[c].p_chan THEN RelayMsgs(c) ELSE {}

Garbage(cell) == cell.crypt # "recognized" \/ ~cell.decode_ok

\* The cells of CellsOn() that the surroundings of this run send.  A
\* circuit that is marked for close does not look at the cell
\* (relay.c:251), so there one cell stands for all of a kind.
RelayCells(c, ch) ==
  {cell \in CellsOn(c, ch) :
     /\ IF Garbage(cell) THEN "garbage" \in conf.env
                          ELSE cell.command \in conf.env
     /\ circ[c].marked_for_close =>
          /\ cell.payload = NoPayload /\ cell.sub = 0 /\ cell.stream_id = 0
          /\ ~cell.oom /\ cell.resume = NULL /\ cell.layer_hint # "h1"}

\* --------------------------------------------------------------- actions
\* What last keeps of the state a call on circuit c and layer started in.
Pre(c, layer) ==
  [marked_for_close |-> circ[c].marked_for_close,
   package_window |-> circuit_get_package_window(World, c, layer),
   deliver_window |-> deliver_window_of(World, c, layer),
   n_sendme_sent |-> circ[c].n_sendme_sent,
   n_data_packaged |-> circ[c].n_data_packaged,
   n_data_received |-> circ[c].n_data_received,
   n_digests |-> Len(circ[c].sendme_last_digests),
   oldest |-> IF circ[c].sendme_last_digests = <<>>
                THEN [b16 |-> 0, b4 |-> 0, idx |-> 0]
                ELSE Head(circ[c].sendme_last_digests)]

\* A relay cell arrives on a channel: command_process_relay_cell().
RecvRelayCell ==
  \E c \in conf.circuits, ch \in Chans :
    /\ ch \in {circ[c].n_chan, circ[c].p_chan}
    /\ \E cell \in RelayCells(c, ch) :
         /\ cell.command = "DATA" => circ[c].n_data_received < MaxDataRecv
         /\ circ[c].n_data_packaged + cell.avail <= MaxPackaged
         /\ LET handled(w2) ==
                  Commit(w2,
                    [op |-> "recv", circ |-> c, chan |-> ch, cell |-> cell,
                     ret |-> w2.ret, called |-> w2.called,
                     recognized |-> w2.recognized,
                     delivered |-> w2.delivered,
                     forwarded |-> w2.forwarded, extended |-> w2.extended,
                     version_ok |-> w2.version_ok, popped |-> w2.popped,
                     compared |-> w2.compared, valid |-> w2.valid,
                     pre |-> Pre(c, cell.layer_hint)])
            IN handled(command_process_relay_cell(World, c, ch, cell))
    /\ next_id' = next_id

\* A stream that is reading has data in its inbuf:
\* connection_edge_package_raw_inbuf() with no limit on the cells.
PackageInbuf ==
  \E s \in Streams, avail \in 1 .. MaxInbuf, oom \in {FALSE} :
    /\ stream[s].on_circ \in conf.circuits
    /\ "inbuf" \in conf.env
    /\ connection_is_reading(World, s)
    /\ circ[stream[s].on_circ].n_data_packaged + avail <= MaxPackaged
    /\ LET c == stream[s].on_circ
           packaged(w2) ==
             Commit(w2,
               [op |-> "package", circ |-> c, stream |-> s, avail |-> avail,
                ret |-> w2.ret, pre |-> Pre(c, stream[s].cpath_layer)])
       IN packaged(connection_edge_package_raw_inbuf(World, s, avail, 0,
                                                     oom))
    /\ next_id' = next_id

\* What last keeps of the state a flush of channel ch started in: the
\* circuits whose queue for the channel was blocked, and the number of
\* cells the channel had been handed.
PreFlush(ch) ==
  [blocked |-> {c \in conf.circuits :
                  /\ ch \in {circ[c].n_chan, circ[c].p_chan}
                  /\ circ[c][BlockedOf(DirOn(World, c, ch))]},
   handed |-> Len(chan[ch].handed)]

\* The scheduler flushes a channel that has cells waiting:
\* channel_flush_from_first_active_circuit().
Flush ==
  \E ch \in Chans, max \in 1 .. MaxFlush :
    /\ "flush" \in conf.env
    /\ ActiveCircuits(World, ch) # {}
    /\ ~chan[ch].marked_for_close
    /\ Len(chan[ch].handed) + max <= MaxWritten
    /\ \E w2 \in channel_flush_from_first_active_circuit(World, ch, max) :
         Commit(w2, [op |-> "flush", chan |-> ch, ret |-> w2.ret,
                     pre |-> PreFlush(ch)])
    /\ next_id' = next_id

Next == RecvRelayCell \/ PackageInbuf \/ Flush

Spec == Init /\ [][Next]_vars

\* ------------------------------------------- cell queues of two circuits
\* How a stream stands when the run starts.
StreamProfiles == {"reading", "idle", "no_read_event", "xoff", "marked"}

ProfiledStream(c, stream_id, cpath_layer, profile) ==
  NewStream(c, stream_id, cpath_layer,
            profile # "no_read_event",
            profile \in {"reading", "xoff", "marked"},
            profile = "xoff",
            profile = "marked")

\* What happens to the queues in a run: the circuits that carry cells, the
\* directions the cells travel in, and the events that occur.
QueueScenarios ==
  {[circuits |-> Circs, env |-> {"OUT", "flush"}],
   [circuits |-> {"c1"}, env |-> {"OUT", "IN", "consensus", "oom"}],
   [circuits |-> {"c2"}, env |-> {"OUT", "streams", "flush", "mark",
                                  "clear"}]}

QueueConf(sc) ==
  [circuits |-> sc.circuits,
   env |-> sc.env,
   max_circuit_cell_queue_size |-> RELAY_CIRC_CELL_QUEUE_SIZE_DEFAULT,
   max_circuit_cell_queue_size_out |-> RELAY_CIRC_CELL_QUEUE_SIZE_DEFAULT,
   AllowNonearlyExtend |-> FALSE,
   sendme_accept_min_version |-> 0]

\* The circuits are open and share channel N; their streams are reading.
InitQueue ==
  /\ circ = [c \in Circs |->
               IF c = "c1"
                 THEN NewCircuit(FALSE, "N", "OR", SENDME_TAG_LEN_TOR1, NULL)
                 ELSE NewCircuit(TRUE, "N", "C_GENERAL", SENDME_TAG_LEN_TOR1,
                                 NULL)]
  /\ stream = [s \in Streams |->
                 IF s = "s1" THEN ProfiledStream("c1", 1, NULL, "reading")
                 ELSE IF s = "s2"
                   THEN ProfiledStream("c2", 1, "h2", "reading")
                   ELSE ProfiledStream("c2", 2, "h2", "reading")]
  /\ \E sc \in QueueScenarios : conf = QueueConf(sc)
  /\ InitRest

\* One circuit carries cells towards the side its streams feed; it is a leg
\* of a conflux set or not, and its streams stand in any of the profiles.
InitBlock ==
  \E focus \in Circs, cf \in {NULL, "can_send", "cannot_send"},
     p1, p2 \in StreamProfiles :
    /\ focus = "c1" => p2 = "reading"
    /\ circ = [c \in Circs |->
                 IF c = "c1"
                   THEN NewCircuit(FALSE, "N", "OR", SENDME_TAG_LEN_TOR1, cf)
                   ELSE NewCircuit(TRUE, "N", "C_GENERAL",
                                   SENDME_TAG_LEN_TOR1, cf)]
    /\ stream = [s \in Streams |->
                   IF s = "s1" THEN ProfiledStream("c1", 1, NULL, p1)
                   ELSE IF s = "s2" THEN ProfiledStream("c2", 1, "h2", p1)
                   ELSE ProfiledStream("c2", 2, "h2", p2)]
    /\ conf = QueueConf([circuits |-> {focus},
                         env |-> {IF focus = "c1" THEN "IN" ELSE "OUT",
                                  "streams", "flush", "clear"}])
    /\ InitRest

\* What last keeps of the state an append started in.
PreQueue(c, direction) ==
  [n |-> Len(circ[c][QueueOf(direction)]),
   blocked |-> circ[c][BlockedOf(direction)],
   marked_for_close |-> circ[c].marked_for_close,
   max_queue_size |-> IF direction = "OUT"
                        THEN conf.max_circuit_cell_queue_size_out
                        ELSE conf.max_circuit_cell_queue_size,
   reading |-> {s \in Streams : stream[s].reading}]

\* A cell is queued on a circuit for one of its channels:
\* append_cell_to_circuit_queue(), for a cell passed on (fromstream 0) or
\* packaged from a stream.
AppendCell ==
  \E c \in conf.circuits, direction \in {"OUT", "IN"} \cap conf.env,
     fromstream \in (IF "streams" \in conf.env THEN 0 .. 2 ELSE {0}),
     oom \in (IF "oom" \in conf.env THEN BOOLEAN ELSE {FALSE}) :
    /\ ChanOf(World, c, direction) # NULL
    /\ next_id <= MaxCells
    /\ fromstream # 0 =>
         /\ \E s \in StreamsOf(World, c) : stream[s].stream_id = fromstream
         /\ direction = (IF circ[c].is_origin THEN "OUT" ELSE "IN")
    /\ LET w2 == append_cell_to_circuit_queue(
                   World, c, ChanOf(World, c, direction), [id |-> next_id],
                   direction, fromstream, oom)
       IN /\ Commit(w2,
               [op |-> "append", circ |-> c, direction |-> direction,
                fromstream |-> fromstream, oom |-> oom, id |-> next_id,
                ret |-> w2.ret, pre |-> PreQueue(c, direction)])
          /\ next_id' = IF w2.ret = 1 THEN next_id + 1 ELSE next_id

\* circuit_clear_cell_queue()
ClearCellQueue ==
  \E c \in conf.circuits, ch \in Chans :
    /\ "clear" \in conf.env
    /\ ch \in {circ[c].n_chan, circ[c].p_chan}
    /\ Commit(circuit_clear_cell_queue(World, c, ch),
              [op |-> "clear", circ |-> c, chan |-> ch])
    /\ next_id' = next_id

\* A new consensus arrives: relay_consensus_has_changed().
ConsensusChanged ==
  \E size, size_out \in QueueSizeParams :
    /\ "consensus" \in conf.env
    /\ Commit(relay_consensus_has_changed(World, size, size_out),
              [op |-> "consensus"])
    /\ next_id' = next_id

\* A circuit is marked for close from outside relay.c (a DESTROY cell
\* arrived, say).
MarkForClose ==
  \E c \in conf.circuits :
    /\ "mark" \in conf.env
    /\ ~circ[c].marked_for_close
    /\ Commit(circuit_mark_for_close(World, c, END_CIRC_REASON_DESTROYED),
              [op |-> "mark", circ |-> c])
    /\ next_id' = next_id

NextQueue ==
  AppendCell \/ Flush \/ ClearCellQueue \/ ConsensusChanged \/ MarkForClose

SpecQueue == InitQueue /\ [][NextQueue]_vars

NextBlock == AppendCell \/ Flush \/ ClearCellQueue

SpecBlock == InitBlock /\ [][NextBlock]_vars

\* --------------------------------------------- cells sent from the edge
\* The relay commands that are sent on a circuit in these runs, with
\* stream id 0.
EdgeCommands == {"EXTEND", "EXTEND2", "DROP"}

\* relay_send_command_from_edge(): a relay message is sent on a circuit,
\* by an origin circuit to one of its hops.
SendFromEdge ==
  \E c \in conf.circuits, relay_command \in EdgeCommands,
     cpath_layer \in Hops \cup {NULL} :
    /\ "send" \in conf.env
    /\ (cpath_layer # NULL) = circ[c].is_origin
    /\ LET sent(w2) ==
              Commit(w2, [op |-> "send", circ |-> c,
                          relay_command |-> relay_command,
                          cpath_layer |-> cpath_layer, ret |-> w2.ret])
       IN sent(relay_send_command_from_edge(World, 0, c, relay_command,
                                            cpath_layer, FALSE))
    /\ next_id' = next_id

\* A relay circuit between P and N, or an origin circuit with the hops h1
\* and h2, that sends relay messages while its channels are flushed, and
\* is marked for close at some point.
InitEarly ==
  /\ \E focus \in Circs :
       conf = QueueConf([circuits |-> {focus},
                         env |-> {"send", "flush", "mark"}])
  /\ circ = [c \in Circs |->
               IF c = "c1"
                 THEN NewCircuit(FALSE, "N", "OR", SENDME_TAG_LEN_TOR1, NULL)
                 ELSE NewCircuit(TRUE, "N", "C_GENERAL", SENDME_TAG_LEN_TOR1,
                                 NULL)]
  /\ stream = [s \in Streams |->
                 IF s = "s1" THEN ProfiledStream("c1", 1, NULL, "reading")
                 ELSE IF s = "s2"
                   THEN ProfiledStream("c2", 1, "h2", "reading")
                   ELSE ProfiledStream("c2", 2, "h2", "reading")]
  /\ InitRest

NextEarly == SendFromEdge \/ Flush \/ MarkForClose

SpecEarly == InitEarly /\ [][NextEarly]_vars

\* ------------------------------------------- circuits marked for close
\* A relay circuit between P and N, or an origin circuit, that receives
\* relay cells, has cells queued, and is marked for close at some point.
InitMarked ==
  /\ \E focus \in Circs :
       conf = [QueueConf([circuits |-> {focus},
                          env |-> {"garbage", "OUT", "IN", "mark"}])
                 EXCEPT !.max_circuit_cell_queue_size =
                          RELAY_CIRC_CELL_QUEUE_SIZE_MIN,
                        !.max_circuit_cell_queue_size_out =
                          RELAY_CIRC_CELL_QUEUE_SIZE_MIN]
  /\ circ = [c \in Circs |->
               IF c = "c1"
                 THEN NewCircuit(FALSE, "N", "OR", SENDME_TAG_LEN_TOR1, NULL)
                 ELSE NewCircuit(TRUE, "N", "C_GENERAL", SENDME_TAG_LEN_TOR1,
                                 NULL)]
  /\ stream = [s \in Streams |->
                 IF s = "s1" THEN ProfiledStream("c1", 1, NULL, "reading")
                 ELSE IF s = "s2"
                   THEN ProfiledStream("c2", 1, "h2", "reading")
                   ELSE ProfiledStream("c2", 2, "h2", "reading")]
  /\ InitRest

NextMarked == RecvRelayCell \/ AppendCell \/ MarkForClose

SpecMarked == InitMarked /\ [][NextMarked]_vars

\* ------------------------------------------------ DNS resolver (dns.c)
\* Exit connections, in the order in which they are created.
Conns == <<"e1", "e2">>

ConnSet == {Conns[k] : k \in 1 .. Len(Conns)}

Hostnames == {"x", "y"}

\* An address that tor_addr_parse() accepts.
IpLiteral == "1.2.3.4"

IPs == {"ip1", "ip2"}

DnsTypes == {"A", "AAAA"}

\* begincell_flags that the BEGIN cells of a run carry.
BeginFlagSets ==
  {{}, {"IPV6_OK", "IPV6_PREFERRED"}, {"IPV6_OK", "IPV4_NOT_OK"}}

\* What can go wrong when a resolve is asked for: the exit policy has
\* become reject *:*, the resolver library takes no request.
DnsFaults == {"reject_star", "A_rejected", "AAAA_rejected", "disabled"}

\* An edge_connection_t that has not been created.
NoConn ==
  [state |-> "NONE", purpose |-> NULL, address |-> NULL,
   begincell_flags |-> {}, marked_for_close |-> FALSE, on_circuit |-> NULL,
   linked |-> "none", freed |-> FALSE, edge_has_sent_end |-> FALSE,
   addr |-> NULL]

\* A cached_resolve_t after tor_malloc_zero() with the fields dns_resolve_impl
\* fills in.
NewResolve(address) ==
  [address |-> address, state |-> "PENDING", expire |-> 0,
   pending_connections |-> <<>>,
   res_status_ipv4 |-> "0", res_status_ipv6 |-> "0",
   result_ipv4 |-> NULL, result_ipv6 |-> NULL,
   ttl_ipv4 |-> 0, ttl_ipv6 |-> 0, queued |-> FALSE]

\* The memory of a cached_resolve_t that is not allocated.
NoResolve == [NewResolve(NULL) EXCEPT !.state = "FREED"]

ResolveIds == 1 .. MaxResolves

\* tor_malloc_zero() of a cached_resolve_t.
NewResolveId(d) ==
  CHOOSE i \in ResolveIds :
    /\ d.resolves[i].state = "FREED"
    /\ \A j \in 1 .. i - 1 : d.resolves[j].state # "FREED"

DnsRet(d, r) == [d EXCEPT !.ret = r]

\* A relay cell sent on the circuit of a connection.
EdgeCell(command, arg) == [command |-> command, arg |-> arg]

\* connection_edge_send_command() on an exit connection: the cell goes out
\* on the circuit the connection is attached to.
exit_send_command(d, e, command, arg) ==
  IF d.conn[e].on_circuit = NULL
    THEN d
    ELSE [d EXCEPT !.sent[e] = Append(@, EdgeCell(command, arg))]

\* connection_edge_end(): one END per connection, none for a connection
\* marked for close.
connection_edge_end(d, e, reason) ==
  IF d.conn[e].edge_has_sent_end \/ d.conn[e].marked_for_close
    THEN d
    ELSE [exit_send_command(d, e, "END", reason)
            EXCEPT !.conn[e].edge_has_sent_end = TRUE]

\* send_resolved_cell(): a RESOLVED cell of the answer type given; for type
\* AUTO the cell carries the addresses of resolve number resolved, and is an
\* error when there is no resolve (0) or it has no address.
send_resolved_cell(d, e, answer_type, resolved) ==
  IF answer_type # "AUTO"
    THEN exit_send_command(d, e, "RESOLVED", answer_type)
  ELSE IF /\ resolved # 0
          /\ \/ d.resolves[resolved].res_status_ipv4 = "DONE_OK"
             \/ d.resolves[resolved].res_status_ipv6 = "DONE_OK"
    THEN exit_send_command(d, e, "RESOLVED", "ANSWER")
    ELSE exit_send_command(d, e, "RESOLVED", "ERROR")

\* circuit_detach_stream(): the connection leaves the stream list it is on.
circuit_detach_stream(d, e) ==
  [d EXCEPT !.conn[e].on_circuit = NULL, !.conn[e].linked = "none"]

\* connection_free_(): the memory is gone; a stream list that still holds
\* the connection keeps holding it.
connection_free_(d, e) ==
  [d EXCEPT !.conn[e] = [NoConn EXCEPT !.state = "FREED", !.freed = TRUE,
                                       !.linked = d.conn[e].linked]]

\* A variant of the loop body that ends a timed-out connection with reason
\* RESOLVEFAILED.
purge_pending_resolvefailed(d, e) ==
  LET failed(d1) ==
        IF d1.conn[e].marked_for_close
          THEN d1
          ELSE connection_free_(
                 circuit_detach_stream(
                   connection_edge_end(d1, e, "RESOLVEFAILED"), e), e)
  IN failed([d EXCEPT !.conn[e].state = "RESOLVEFAILED"])

\* purge_expired_resolves(): body of the loop over the connections pending
\* on an expired resolve.
purge_pending(d, e) ==
  LET failed(d1) ==
        IF d1.conn[e].marked_for_close
          THEN d1
          ELSE connection_free_(
                 circuit_detach_stream(
                   connection_edge_end(d1, e, "TIMEOUT"), e), e)
  IN failed([d EXCEPT !.conn[e].state = "RESOLVEFAILED"])

RECURSIVE purge_pending_connections(_, _)
purge_pending_connections(d, i) ==
  IF d.resolves[i].pending_connections = <<>>
    THEN d
    ELSE CHOOSE r \in
           {purge_pending_connections(d1, i) :
              d1 \in {purge_pending(
                        [d EXCEPT !.resolves[i].pending_connections =
                                    Tail(@)],
                        Head(d.resolves[i].pending_connections))}} : TRUE

\* The resolves of the expiry queue that are due at time now.
ExpiredResolves(d, now) ==
  {i \in ResolveIds :
     d.resolves[i].queued /\ d.resolves[i].expire <= now}

\* The head of the expiry queue among the resolves due.
FirstExpired(d, now) ==
  CHOOSE i \in ExpiredResolves(d, now) :
    \A j \in ExpiredResolves(d, now) :
      \/ d.resolves[i].expire < d.resolves[j].expire
      \/ d.resolves[i].expire = d.resolves[j].expire /\ i <= j

\* purge_expired_resolves(): body of the loop for the resolve popped.
purge_resolve(d, i) ==
  LET freed(d1) ==
        [d1 EXCEPT !.cache_map[d.resolves[i].address] =
                     IF d.resolves[i].state \in {"CACHED", "PENDING"}
                       THEN 0 ELSE @,
                   !.resolves[i] = NoResolve]
  IN freed(purge_pending_connections(d, i))

RECURSIVE purge_expired_resolves(_, _)
purge_expired_resolves(d, now) ==
  IF ExpiredResolves(d, now) = {}
    THEN d
    ELSE CHOOSE r \in {purge_expired_resolves(d1, now) :
                         d1 \in {purge_resolve(d, FirstExpired(d, now))}} :
           TRUE

\* A variant of set_expiry() that leaves the resolve out of the queue.
set_expiry_unqueued(d, i, expires) ==
  [d EXCEPT !.resolves[i].expire = expires]

\* set_expiry(): the expiry time is set and the resolve joins the queue.
set_expiry(d, i, expires) ==
  [d EXCEPT !.resolves[i].expire = expires, !.resolves[i].queued = TRUE]

\* evdns_err_is_transient()
evdns_err_is_transient(err) == err \in {"SERVERFAILED", "TRUNCATED", "TIMEOUT"}

\* router_compare_to_my_exit_policy() on the answer of a resolve: nonzero
\* when the address is rejected.
router_compare_to_my_exit_policy(d, ip) == ip \in d.opt.rejected

\* set_exitconn_info_from_resolve(): which family answers the connection.
answer_with_ipv4(d, e, resolve) ==
  LET is_resolve == d.conn[e].purpose = "RESOLVE"
      begincell_flags == IF is_resolve THEN {"IPV6_OK"}
                                      ELSE d.conn[e].begincell_flags
      ipv4_ok == /\ resolve.res_status_ipv4 = "DONE_OK"
                 /\ "IPV4_NOT_OK" \notin begincell_flags
      ipv6_ok == /\ resolve.res_status_ipv6 = "DONE_OK"
                 /\ "IPV6_OK" \in begincell_flags
                 /\ d.opt.IPv6Exit
      ipv4_allowed == ~router_compare_to_my_exit_policy(d, resolve.result_ipv4)
      ipv6_allowed == ~router_compare_to_my_exit_policy(d, resolve.result_ipv6)
  IN IF ipv4_ok /\ ipv6_ok /\ is_resolve THEN TRUE
     ELSE IF ipv4_ok /\ ipv6_ok
       THEN IF ipv4_allowed /\ ~ipv6_allowed THEN TRUE
            ELSE IF ipv6_allowed /\ ~ipv4_allowed THEN FALSE
            ELSE "IPV6_PREFERRED" \notin begincell_flags
     ELSE IF ipv4_ok THEN TRUE
     ELSE IF ipv6_ok THEN FALSE
     ELSE "IPV6_PREFERRED" \notin begincell_flags

\* set_exitconn_info_from_resolve(): 1 with the address written to the
\* connection, -1 on a permanent and -2 on a transient error.
set_exitconn_info_from_resolve(d, e, resolve) ==
  IF answer_with_ipv4(d, e, resolve)
    THEN IF resolve.res_status_ipv4 = "DONE_OK"
           THEN DnsRet([d EXCEPT !.conn[e].addr = resolve.result_ipv4], 1)
           ELSE DnsRet(d, IF evdns_err_is_transient(resolve.result_ipv4)
                            THEN -2 ELSE -1)
    ELSE IF resolve.res_status_ipv6 = "DONE_OK"
           THEN DnsRet([d EXCEPT !.conn[e].addr = resolve.result_ipv6], 1)
           ELSE DnsRet(d, IF evdns_err_is_transient(resolve.result_ipv6)
                            THEN -2 ELSE -1)

\* launch_one_resolve(): 0 when the resolver library takes the request,
\* which is then outstanding, and -1 when it does not.
launch_one_resolve(d, address, query_type, taken) ==
  LET requested(d1) ==
        IF taken
          THEN DnsRet([d1 EXCEPT !.queries[<<address, query_type>>] = @ + 1],
                      0)
          ELSE DnsRet(d1, -1)
  IN requested(IF query_type = "AAAA"
                 THEN [d EXCEPT !.n_ipv6_requests_made = @ + 1]
                 ELSE d)

\* launch_resolve() for a hostname: an A request, and an AAAA request with
\* IPv6Exit when the A request was taken.
launch_resolve(d, i, evdns) ==
  IF evdns = "disabled"
    THEN DnsRet(d, -1)
    ELSE LET launched_aaaa(d2) ==
               IF d2.ret < 0
                 THEN [d2 EXCEPT !.resolves[i].res_status_ipv6 = "0"]
                 ELSE d2
             launched_a(d1) ==
               IF d1.ret < 0
                 THEN [d1 EXCEPT !.resolves[i].res_status_ipv4 = "0"]
               ELSE IF d1.opt.IPv6Exit
                 THEN launched_aaaa(
                        launch_one_resolve(d1, d1.resolves[i].address, "AAAA",
                                           evdns # "AAAA_rejected"))
                 ELSE d1
         IN launched_a(
              launch_one_resolve(
                [d EXCEPT !.resolves[i].res_status_ipv4 = "INFLIGHT",
                          !.resolves[i].res_status_ipv6 =
                            IF d.opt.IPv6Exit THEN "INFLIGHT" ELSE @],
                d.resolves[i].address, "A", evdns # "A_rejected"))

\* A variant of the lookup in dns_resolve_impl() that finds no pending
\* resolve.
FindResolve_miss_pending(d, address, now) ==
  IF /\ d.cache_map[address] # 0
     /\ d.resolves[d.cache_map[address]].expire > now
     /\ d.resolves[d.cache_map[address]].state # "PENDING"
    THEN d.cache_map[address]
    ELSE 0

\* HT_FIND() in dns_resolve_impl() with the test on the expiry time: the
\* resolve of the address that is still good, or 0.
FindResolve(d, address, now) ==
  IF /\ d.cache_map[address] # 0
     /\ d.resolves[d.cache_map[address]].expire > now
    THEN d.cache_map[address]
    ELSE 0

\* A variant that puts the connection on the list twice.
AddPending_twice(pending_connections, e) == <<e, e>> \o pending_connections

\* dns_resolve_impl(): the connection becomes the head of the list of
\* pending connections.
AddPending(pending_connections, e) == <<e>> \o pending_connections

\* dns_resolve_impl(): the new resolve is pending with the connection as its
\* only pending connection, is in the map and the expiry queue, and is
\* launched.
InsertResolve(d, e, address, now, evdns) ==
  LET i == NewResolveId(d)
      inserted(d1) ==
        launch_resolve(set_expiry(d1, i, now + RESOLVE_MAX_TIMEOUT), i, evdns)
  IN inserted([d EXCEPT !.resolves[i] =
                          [NewResolve(address) EXCEPT
                             !.pending_connections = AddPending(<<>>, e)],
                        !.cache_map[address] = i,
                        !.made_connection_pending = TRUE])

\* dns_resolve_impl() after the expired resolves are purged.
LookupResolve(d, e, address, now, evdns) ==
  LET found(i) ==
        IF i = 0
          THEN InsertResolve(d, e, address, now, evdns)
        ELSE IF d.resolves[i].state = "PENDING"
          THEN DnsRet([d EXCEPT !.resolves[i].pending_connections =
                                  AddPending(@, e),
                                !.made_connection_pending = TRUE], 0)
          ELSE set_exitconn_info_from_resolve([d EXCEPT !.resolve_out = i],
                                              e, d.resolves[i])
  IN found(FindResolve(d, address, now))

\* dns_resolve_impl()
dns_resolve_impl(d, e, now, reject_star, evdns) ==
  IF d.conn[e].address = IpLiteral
    THEN DnsRet([d EXCEPT !.conn[e].addr = IpLiteral], 1)
  ELSE IF reject_star
    THEN DnsRet(d, -1)
    ELSE LookupResolve(purge_expired_resolves(d, now), e, d.conn[e].address,
                       now, evdns)

\* dns_cancel_pending_resolve(): body of the loop over the pending
\* connections.
cancel_pending(d, e) ==
  LET freed(d3) ==
        IF d3.conn[e].marked_for_close THEN d3 ELSE connection_free_(d3, e)
      detached(d2) ==
        freed(IF d2.conn[e].on_circuit # NULL
                THEN circuit_detach_stream(d2, e) ELSE d2)
      ended(d1) ==
        detached(connection_edge_end(d1, e, "RESOLVEFAILED"))
  IN ended([d EXCEPT !.conn[e].state = "RESOLVEFAILED"])

RECURSIVE cancel_pending_connections(_, _)
cancel_pending_connections(d, i) ==
  IF d.resolves[i].pending_connections = <<>>
    THEN d
    ELSE cancel_pending_connections(
           [cancel_pending(d, Head(d.resolves[i].pending_connections))
              EXCEPT !.resolves[i].pending_connections = Tail(@)], i)

\* dns_cancel_pending_resolve()
dns_cancel_pending_resolve(d, address) ==
  LET cancelled(d1) ==
        [d1 EXCEPT !.cache_map[address] = 0,
                   !.resolves[d.cache_map[address]].state = "DONE"]
  IN IF address \notin DOMAIN d.cache_map \/ d.cache_map[address] = 0
       THEN d
     ELSE IF d.resolves[d.cache_map[address]].state # "PENDING"
       THEN d
     ELSE IF d.resolves[d.cache_map[address]].pending_connections = <<>>
       THEN d
       ELSE cancelled(cancel_pending_connections(d, d.cache_map[address]))

\* dns_resolve(): what is done with the connection for the value that
\* dns_resolve_impl() returned.
dns_resolve_switch(d, e) ==
  LET is_resolve == d.conn[e].purpose = "RESOLVE"
      cancelled(d1) ==
        IF ~d.made_connection_pending /\ ~d.conn[e].marked_for_close
          THEN connection_free_(d1, e)
          ELSE d1
      failed(d1) ==
        cancelled(dns_cancel_pending_resolve(
                    [d1 EXCEPT !.conn[e].on_circuit = NULL],
                    d.conn[e].address))
  IN IF d.ret = 1
       THEN IF is_resolve
              THEN [send_resolved_cell(d, e, "AUTO", d.resolve_out)
                      EXCEPT !.conn[e].on_circuit = NULL]
              ELSE [d EXCEPT !.conn[e].linked = "n_streams"]
     ELSE IF d.ret = 0
       THEN [d EXCEPT !.conn[e].state = "RESOLVING",
                      !.conn[e].linked = "resolving_streams"]
     ELSE failed(IF is_resolve
                   THEN send_resolved_cell(
                          d, e, IF d.ret = -1 THEN "ERROR"
                                              ELSE "ERROR_TRANSIENT", 0)
                   ELSE d)

\* dns_resolve(): the value returned is in field ret.
dns_resolve(d, e, now, reject_star, evdns) ==
  LET switched(d1) == [dns_resolve_switch(d1, e) EXCEPT !.ret = d1.ret]
  IN switched(dns_resolve_impl([d EXCEPT !.made_connection_pending = FALSE,
                                         !.resolve_out = 0],
                               e, now, reject_star, evdns))

\* The list without its first entry for the connection.
RECURSIVE RemovePending(_, _)
RemovePending(pending, e) ==
  IF pending = <<>> THEN <<>>
  ELSE IF Head(pending) = e THEN Tail(pending)
  ELSE <<Head(pending)>> \o RemovePending(Tail(pending), e)

\* connection_dns_remove()
connection_dns_remove(d, e) ==
  IF d.cache_map[d.conn[e].address] = 0
    THEN d
    ELSE [d EXCEPT !.resolves[d.cache_map[d.conn[e].address]]
                      .pending_connections = RemovePending(@, e)]

\* cached_resolve_add_answer() for an A or AAAA answer: an answer for a
\* request that is not in flight is ignored.
cached_resolve_add_answer(d, i, query_type, dns_result, answer_addr, ttl) ==
  IF query_type = "A"
    THEN IF d.resolves[i].res_status_ipv4 # "INFLIGHT"
           THEN d
         ELSE IF dns_result = "NONE" /\ answer_addr # NULL
           THEN [d EXCEPT !.resolves[i].result_ipv4 = answer_addr,
                          !.resolves[i].res_status_ipv4 = "DONE_OK",
                          !.resolves[i].ttl_ipv4 = ttl]
           ELSE [d EXCEPT !.resolves[i].result_ipv4 = dns_result,
                          !.resolves[i].res_status_ipv4 = "DONE_ERR",
                          !.resolves[i].ttl_ipv4 = ttl]
    ELSE IF d.resolves[i].res_status_ipv6 # "INFLIGHT"
           THEN d
         ELSE IF dns_result = "NONE" /\ answer_addr # NULL
           THEN [d EXCEPT !.resolves[i].result_ipv6 = answer_addr,
                          !.resolves[i].res_status_ipv6 = "DONE_OK",
                          !.resolves[i].ttl_ipv6 = ttl]
           ELSE [d EXCEPT !.resolves[i].result_ipv6 = dns_result,
                          !.resolves[i].res_status_ipv6 = "DONE_ERR",
                          !.resolves[i].ttl_ipv6 = ttl]

\* A variant of cached_resolve_have_all_answers() that looks at the A
\* request only.
cached_resolve_have_all_answers_ipv4(resolve) ==
  resolve.res_status_ipv4 # "INFLIGHT"

\* cached_resolve_have_all_answers()
cached_resolve_have_all_answers(resolve) ==
  /\ resolve.res_status_ipv4 # "INFLIGHT"
  /\ resolve.res_status_ipv6 # "INFLIGHT"

\* inform_pending_connections(): body of the loop for one pending
\* connection of resolve i.
inform_pending(d, e, i) ==
  LET informed(d1) ==
        IF d1.ret < 0
          THEN IF d1.conn[e].purpose = "CONNECT"
                 THEN connection_free_(
                        circuit_detach_stream(
                          connection_edge_end(
                            [d1 EXCEPT !.conn[e].state = "RESOLVEFAILED"],
                            e, "RESOLVEFAILED"), e), e)
                 ELSE connection_free_(
                        circuit_detach_stream(
                          send_resolved_cell(
                            [d1 EXCEPT !.conn[e].state = "RESOLVEFAILED"],
                            e, IF d1.ret = -1 THEN "ERROR"
                                              ELSE "ERROR_TRANSIENT", 0),
                          e), e)
        ELSE IF d1.conn[e].purpose = "CONNECT"
          THEN [d1 EXCEPT !.conn[e].state = "CONNECTING",
                          !.conn[e].linked = "n_streams"]
          ELSE connection_free_(
                 circuit_detach_stream(
                   send_resolved_cell(
                     [d1 EXCEPT !.conn[e].state = "RESOLVEFAILED"],
                     e, "AUTO", i), e), e)
  IN IF d.conn[e].marked_for_close
       THEN [d EXCEPT !.conn[e].state = "RESOLVEFAILED"]
       ELSE informed(set_exitconn_info_from_resolve(d, e, d.resolves[i]))

RECURSIVE inform_pending_connections(_, _)
inform_pending_connections(d, i) ==
  IF d.resolves[i].pending_connections = <<>>
    THEN d
    ELSE inform_pending_connections(
           [inform_pending(d, Head(d.resolves[i].pending_connections), i)
              EXCEPT !.resolves[i].pending_connections = Tail(@)], i)

\* make_pending_resolve_cached(): the shortest of the times to live of the
\* answers of a resolve (a forward lookup that has all its answers has one
\* for its A request).
ResolveTtl(resolve) ==
  LET Done(status) == status \in {"DONE_OK", "DONE_ERR"}
      ttls == {t \in {resolve.ttl_ipv4} : Done(resolve.res_status_ipv4)}
                \cup {t \in {resolve.ttl_ipv6} : Done(resolve.res_status_ipv6)}
  IN CHOOSE t \in ttls : \A u \in ttls : t <= u

\* make_pending_resolve_cached(): the pending resolve is done and leaves the
\* map; a copy of it in state CACHED takes its place and expires after the
\* time to live of the answers.
make_pending_resolve_cached(d, i) ==
  LET new_resolve == NewResolveId(d)
  IN set_expiry(
       [d EXCEPT !.resolves[i].state = "DONE",
                 !.resolves[new_resolve] =
                   [d.resolves[i] EXCEPT !.state = "CACHED", !.expire = 0,
                                         !.queued = FALSE],
                 !.cache_map[d.resolves[i].address] = new_resolve],
       new_resolve, d.now + ResolveTtl(d.resolves[i]))

\* A variant of dns_found_answer() that does not look at the state of the
\* resolve it finds.
dns_found_answer_any_state(d, address, query_type, dns_answer, addr, ttl) ==
  LET answered(d1) ==
        IF cached_resolve_have_all_answers(d1.resolves[d.cache_map[address]])
          THEN make_pending_resolve_cached(
                 inform_pending_connections(d1, d.cache_map[address]),
                 d.cache_map[address])
          ELSE d1
  IN IF d.cache_map[address] = 0
       THEN d
       ELSE answered(cached_resolve_add_answer(d, d.cache_map[address],
                                               query_type, dns_answer, addr,
                                               ttl))

\* dns_found_answer()
dns_found_answer(d, address, query_type, dns_answer, addr, ttl) ==
  LET answered(d1) ==
        IF cached_resolve_have_all_answers(d1.resolves[d.cache_map[address]])
          THEN make_pending_resolve_cached(
                 inform_pending_connections(d1, d.cache_map[address]),
                 d.cache_map[address])
          ELSE d1
  IN IF d.cache_map[address] = 0
       THEN d
     ELSE IF d.resolves[d.cache_map[address]].state # "PENDING"
       THEN d
       ELSE answered(cached_resolve_add_answer(d, d.cache_map[address],
                                               query_type, dns_answer, addr,
                                               ttl))

\* A variant of answer_is_wildcarded() that knows no wildcard address.
answer_is_wildcarded_never(d, ip) == FALSE

\* answer_is_wildcarded()
answer_is_wildcarded(d, ip) == ip \in d.dns_wildcard_list

\* A variant of track_ipv6_timeouts() that takes IPv6 for broken as soon as
\* more than half of the requests have timed out.
track_ipv6_timeouts_half(d, type, result) ==
  LET checked(d1) ==
        IF d1.n_ipv6_timeouts > d1.n_ipv6_requests_made \div 2
          THEN [d1 EXCEPT !.dns_is_broken_for_ipv6 = TRUE]
          ELSE d1
  IN IF type # "AAAA" THEN d
     ELSE checked(IF result = "TIMEOUT"
                    THEN [d EXCEPT !.n_ipv6_timeouts = @ + 1]
                    ELSE d)

\* The start of evdns_callback(): keep track of whether IPv6 is working.
track_ipv6_timeouts(d, type, result) ==
  LET checked(d1) ==
        IF /\ d1.n_ipv6_timeouts > IPV6_TIMEOUTS
           /\ d1.n_ipv6_timeouts > d1.n_ipv6_requests_made \div 2
          THEN [d1 EXCEPT !.dns_is_broken_for_ipv6 = TRUE]
          ELSE d1
  IN IF type # "AAAA" THEN d
     ELSE checked(IF result = "TIMEOUT"
                    THEN [d EXCEPT !.n_ipv6_timeouts = @ + 1]
                    ELSE d)

\* evdns_callback() for the answer to an A or AAAA request: count addresses
\* with ip the first of them.
evdns_callback(d, address, type, result, count, ip, ttl) ==
  LET was_wildcarded ==
        result = "NONE" /\ count > 0 /\ answer_is_wildcarded(d, ip)
      addr == IF result = "NONE" /\ count > 0 /\ ~was_wildcarded
                THEN ip ELSE NULL
      result_noted == IF was_wildcarded THEN "NOTEXIST" ELSE result
      tracked(d1) ==
        IF result_noted # "SHUTDOWN"
          THEN dns_found_answer(d1, address, type, result_noted, addr, ttl)
          ELSE d1
  IN tracked(track_ipv6_timeouts(d, type, result))

\* A variant of wildcard_increment_answer() that lists an address from the
\* tenth request on.
wildcard_increment_answer_at_least(d, id) ==
  LET counted(d1) ==
        IF /\ d1.dns_wildcard_response_count[id] > WILDCARD_ANSWERS
           /\ d1.n_wildcard_requests >= WILDCARD_REQUESTS
          THEN [d1 EXCEPT !.dns_wildcard_list = @ \cup {id}]
          ELSE d1
  IN counted([d EXCEPT !.dns_wildcard_response_count[id] = @ + 1])

\* wildcard_increment_answer()
wildcard_increment_answer(d, id) ==
  LET counted(d1) ==
        IF /\ d1.dns_wildcard_response_count[id] > WILDCARD_ANSWERS
           /\ d1.n_wildcard_requests > WILDCARD_REQUESTS
          THEN [d1 EXCEPT !.dns_wildcard_list = @ \cup {id}]
          ELSE d1
  IN counted([d EXCEPT !.dns_wildcard_response_count[id] = @ + 1])

RECURSIVE wildcard_increment_answers(_, _)
wildcard_increment_answers(d, addresses) ==
  IF addresses = <<>>
    THEN d
    ELSE wildcard_increment_answers(
           wildcard_increment_answer(d, Head(addresses)), Tail(addresses))

\* evdns_wildcard_check_callback(): the answer to a request for a name
\* that should not exist.
evdns_wildcard_check_callback(d, result, addresses) ==
  LET counted(d1) ==
        IF result = "NONE" /\ addresses # <<>>
          THEN wildcard_increment_answers(d1, addresses)
          ELSE d1
  IN counted([d EXCEPT !.n_wildcard_requests = @ + 1])

\* The resolver when the relay starts: no connection, nothing cached,
\* nothing asked.  The run has conns exit connections.
NewDns(IPv6Exit, rejected, begincell_flags, hostnames, conns, env) ==
  [now |-> 0,
   conn |-> [e \in ConnSet |-> NoConn],
   sent |-> [e \in ConnSet |-> <<>>],
   resolves |-> [i \in ResolveIds |-> NoResolve],
   cache_map |-> [a \in Hostnames |-> 0],
   queries |-> [q \in Hostnames \X DnsTypes |-> 0],
   dns_wildcard_response_count |-> [ip \in IPs |-> 0],
   n_wildcard_requests |-> 0,
   dns_wildcard_list |-> {},
   n_ipv6_requests_made |-> 0,
   n_ipv6_timeouts |-> 0,
   dns_is_broken_for_ipv6 |-> FALSE,
   opt |-> [IPv6Exit |-> IPv6Exit, rejected |-> rejected,
            begincell_flags |-> begincell_flags, hostnames |-> hostnames,
            conns |-> conns],
   env |-> env,
   ret |-> 0,
   made_connection_pending |-> FALSE,
   resolve_out |-> 0]

\* The circuits are open and idle while the resolver runs.
InitIdle ==
  /\ circ = [c \in Circs |->
               IF c = "c1"
                 THEN NewCircuit(FALSE, "N", "OR", SENDME_TAG_LEN_TOR1, NULL)
                 ELSE NewCircuit(TRUE, "N", "C_GENERAL", SENDME_TAG_LEN_TOR1,
                                 NULL)]
  /\ stream = [s \in Streams |->
                 IF s = "s1" THEN ProfiledStream("c1", 1, NULL, "reading")
                 ELSE IF s = "s2"
                   THEN ProfiledStream("c2", 1, "h2", "reading")
                   ELSE ProfiledStream("c2", 2, "h2", "reading")]
  /\ conf = QueueConf([circuits |-> {}, env |-> {}])
  /\ hop = [h \in Hops |->
              NewHop(IF h = "h1" THEN SENDME_TAG_LEN_TOR1
                                 ELSE SENDME_TAG_LEN_CGO)]
  /\ cmux = [c \in Circs |-> [d \in {"OUT", "IN"} |-> 0]]
  /\ chan = [ch \in Chans |-> [handed |-> <<>>, marked_for_close |-> FALSE]]
  /\ next_id = 1
  /\ last = NoCall
  /\ RestIdle

\* The runs of the resolver.  Without IPv6Exit: requests for one name or
\* two, connections that are marked for close while they wait, time that
\* passes.  With IPv6Exit: the flags of the BEGIN cells and an exit policy
\* that rejects an address.  With faults: the exit policy has become
\* reject *:* or the resolver library takes no request.
DnsScenarios ==
  {NewDns(FALSE, {}, f, h, Len(Conns),
          {"resolve", "answer", "mark", "tick"}) :
     f \in {{}, {"IPV6_OK", "IPV4_NOT_OK"}}, h \in {{"x"}}}
  \cup {NewDns(FALSE, {}, {}, Hostnames, Len(Conns),
               {"resolve", "answer", "tick"})}
  \cup {NewDns(TRUE, sc[1], sc[2], {"x"}, Len(Conns),
               {"resolve", "answer"}) :
          sc \in {t \in {{}, {"ip1"}} \X BeginFlagSets :
                    t[1] # {} => t[2] # {}}}
  \cup {NewDns(IPv6Exit, {}, {}, {"x"}, Len(Conns),
               {"resolve", "answer", "tick"} \cup DnsFaults) :
          IPv6Exit \in BOOLEAN}

InitDns ==
  /\ InitIdle
  /\ dns \in DnsScenarios

\* The resolver as a call finds it: sent holds the cells that the call sends
\* for each connection.
Dns == [dns EXCEPT !.sent = [e \in ConnSet |-> <<>>]]

\* The resolver has done a call: the state after it and the record of it.
CommitDns(d2, call) ==
  /\ dns' = [d2 EXCEPT !.ret = 0, !.made_connection_pending = FALSE,
                       !.resolve_out = 0]
  /\ last' = call
  /\ UNCHANGED <<circ, hop, stream, cmux, chan, conf, next_id>>
  /\ UNCHANGED rest_vars

\* The connection created next.
NextConn(d) ==
  Conns[CHOOSE k \in 1 .. Len(Conns) :
          /\ d.conn[Conns[k]].state = "NONE"
          /\ \A j \in 1 .. k - 1 : d.conn[Conns[j]].state # "NONE"]

\* An exit connection as connection_exit_begin_conn() and
\* connection_exit_begin_resolve() hand it to dns_resolve().
NewExitConn(purpose, address, begincell_flags) ==
  [NoConn EXCEPT !.state = "RESOLVEFAILED", !.purpose = purpose,
                 !.address = address, !.begincell_flags = begincell_flags,
                 !.on_circuit = "c1"]

\* A BEGIN or RESOLVE cell arrives on the circuit: dns_resolve() on a new
\* exit connection.
DnsResolve ==
  /\ "resolve" \in dns.env
  /\ \E k \in 1 .. dns.opt.conns : dns.conn[Conns[k]].state = "NONE"
  /\ \E purpose \in {"CONNECT", "RESOLVE"},
        address \in dns.opt.hostnames \cup {IpLiteral},
        fault \in {"ok"} \cup (DnsFaults \cap dns.env) :
       LET e == NextConn(dns)
           resolved(d2) ==
             CommitDns(d2, [op |-> "dns_resolve", conn |-> e,
                            address |-> address, fault |-> fault,
                            ret |-> d2.ret])
       IN resolved(
            dns_resolve([Dns EXCEPT !.conn[e] =
                               NewExitConn(purpose, address,
                                           IF purpose = "CONNECT"
                                             THEN dns.opt.begincell_flags
                                             ELSE {})],
                        e, dns.now, fault = "reject_star", fault))

\* The resolver library calls evdns_callback() with the outcome of an
\* outstanding request.
DnsAnswer ==
  /\ "answer" \in dns.env
  /\ \E q \in Hostnames \X DnsTypes,
        result \in {"NONE", "NOTEXIST", "TIMEOUT", "SHUTDOWN"},
        count \in 0 .. 1, ip \in IPs, ttl \in 1 .. MaxTtl :
       /\ dns.queries[q] > 0
       /\ count = 0 => ip = "ip1"
       /\ result # "NONE" => count = 0 /\ ttl = 1
       /\ LET answered(d2) ==
                CommitDns(d2, [op |-> "evdns_callback", address |-> q[1],
                               type |-> q[2], result |-> result,
                               count |-> count, ip |-> ip, ret |-> 0])
          IN answered(
               evdns_callback([Dns EXCEPT !.queries[q] = @ - 1],
                              q[1], q[2], result, count, ip, ttl))

\* A second passes.
Tick ==
  /\ "tick" \in dns.env
  /\ dns.now < MaxNow
  /\ CommitDns([Dns EXCEPT !.now = @ + 1],
               [op |-> "tick", ret |-> 0])

\* connection_mark_for_close() on a connection that waits for a resolve.
MarkConn ==
  /\ "mark" \in dns.env
  /\ \E e \in ConnSet :
       /\ dns.conn[e].linked = "resolving_streams"
       /\ ~dns.conn[e].freed
       /\ ~dns.conn[e].marked_for_close
       /\ CommitDns([Dns EXCEPT !.conn[e].marked_for_close = TRUE],
                    [op |-> "mark", conn |-> e, ret |-> 0])

\* connection_exit_about_to_close() and the freeing of a marked connection.
connection_exit_about_to_close(d, e) ==
  LET removed(d1) ==
        IF d1.conn[e].state = "RESOLVING"
          THEN connection_dns_remove(d1, e)
          ELSE d1
  IN connection_free_(
       removed(IF d.conn[e].on_circuit # NULL
                 THEN circuit_detach_stream(d, e) ELSE d), e)

\* The main loop closes a connection that is marked for close.
CloseMarked ==
  /\ \E e \in ConnSet :
       /\ dns.conn[e].marked_for_close
       /\ ~dns.conn[e].freed
       /\ CommitDns(connection_exit_about_to_close(Dns, e),
                    [op |-> "close", conn |-> e, ret |-> 0])

NextDns == DnsResolve \/ DnsAnswer \/ Tick \/ MarkConn \/ CloseMarked

SpecDns == InitDns /\ [][NextDns]_vars

\* ------------------------------------------- wildcard detection (dns.c)
\* The addresses of an answer to a test request: none, one, or two that
\* differ.
TestAnswers ==
  {<<>>} \cup {<<ip>> : ip \in IPs}
         \cup {<<t[1], t[2]>> : t \in {u \in IPs \X IPs : u[1] # u[2]}}

\* The resolver library calls evdns_wildcard_check_callback() with the
\* outcome of a request for a name that should not exist.
WildcardAnswer ==
  /\ "wildcard" \in dns.env
  /\ dns.n_wildcard_requests < MaxWildcardAnswers
  /\ \E result \in {"NONE", "NOTEXIST"}, addresses \in TestAnswers :
       /\ result # "NONE" => addresses = <<>>
       /\ CommitDns(evdns_wildcard_check_callback(Dns, result, addresses),
                    [op |-> "wildcard_check", result |-> result,
                     addresses |-> addresses, ret |-> 0])

\* The relay has IPv6Exit set and has been running for a while: it has made
\* AAAA requests, some of which timed out, and has not found IPv6 broken.
\* It resolves names for its clients.
InitIpv6 ==
  /\ InitIdle
  /\ dns = [NewDns(TRUE, {}, {}, Hostnames, Len(Conns), {"resolve", "answer"})
              EXCEPT !.n_ipv6_requests_made = MaxIpv6Requests,
                     !.n_ipv6_timeouts = IPV6_TIMEOUTS]

NextIpv6 == DnsResolve \/ DnsAnswer

SpecIpv6 == InitIpv6 /\ [][NextIpv6]_vars

\* The relay has IPv6Exit set, asks its test requests and resolves name x
\* for one client.
InitWildcard ==
  /\ InitIdle
  /\ dns = NewDns(TRUE, {}, {}, {"x"}, 1,
                  {"resolve", "answer", "wildcard"})

NextWildcard == WildcardAnswer \/ DnsResolve \/ DnsAnswer

SpecWildcard == InitWildcard /\ [][NextWildcard]_vars

\* ------------------------------------------------------------------------
\* Circuit creation and destruction (command.c).

\* The circuits of the relay in these runs: c1 and c2 as above, and c3, the
\* circuit that a CREATE cell makes.
CmdCircs == {"c1", "c2", "c3"}

\* 1 << (bits - 1): the high bit of a circuit id of the given width.
HighBit(bits) == 2 ^ (bits - 1)

\* The circuit ids a cell can carry on channel ch: zero, a low id, and the
\* ids with bit 15 (here NarrowCircIdBits - 1) and, on a channel with
\* wide_circ_ids, bit 31 (here WideCircIdBits - 1) set.
CircIdsOn(w, ch) ==
  {0, 1, HighBit(NarrowCircIdBits)}
  \cup IF w.chan[ch].wide_circ_ids THEN {HighBit(WideCircIdBits)} ELSE {}

\* A slot without a circuit.
NoCircuit ==
  [is_origin |-> FALSE, state |-> "FREE", purpose |-> NULL,
   p_chan |-> NULL, p_circ_id |-> 0, n_chan |-> NULL, n_circ_id |-> 0,
   received_destroy |-> FALSE, destroy_from |-> {},
   marked_for_close |-> FALSE, marked_for_close_reason |-> 0,
   used_legacy_circuit_handshake |-> FALSE]

Allocated(w) == {c \in DOMAIN w.circ : w.circ[c].state # "FREE"}

\* The circuit table: the circuits registered under (ch, circ_id), one
\* entry for each side of a circuit that has a channel.
CircuitTable(w, ch, circ_id) ==
  {c \in Allocated(w) :
     \/ w.circ[c].p_chan = ch /\ w.circ[c].p_circ_id = circ_id
     \/ w.circ[c].n_chan = ch /\ w.circ[c].n_circ_id = circ_id}

\* circuit_id_in_use_on_channel()
circuit_id_in_use_on_channel(w, circ_id, ch) ==
  CircuitTable(w, ch, circ_id) # {}

\* circuit_get_by_circid_channel(): what the lookup can return.  The
\* lookup is not part of these sources; of a circuit that is marked for
\* close it returns either the circuit or nothing.
circuit_get_by_circid_channel(w, circ_id, ch) ==
  {c \in CircuitTable(w, ch, circ_id) : TRUE}
  \cup IF \A c \in CircuitTable(w, ch, circ_id) : w.circ[c].marked_for_close
         THEN {NULL} ELSE {}

\* circuit_set_p_circid_chan() and circuit_set_n_circid_chan(): the side is
\* registered under its new channel and id, or under none.
circuit_set_p_circid_chan(w, c, id, ch) ==
  [w EXCEPT !.circ[c].p_circ_id = id, !.circ[c].p_chan = ch]

circuit_set_n_circid_chan(w, c, id, ch) ==
  [w EXCEPT !.circ[c].n_circ_id = id, !.circ[c].n_chan = ch]

circuit_set_state(w, c, state) == [w EXCEPT !.circ[c].state = state]

\* channel_send_destroy(): a DESTROY cell for circ_id goes out on ch.
channel_send_destroy(w, circ_id, ch, reason) ==
  [w EXCEPT !.chan[ch].handed =
              Append(@, [command |-> "DESTROY", circ_id |-> circ_id,
                         reason |-> reason])]

\* The memory that or_circuit_new() takes.
FreeSlot(w) == "c3"

\* or_circuit_new(): a relay circuit whose p side is (p_chan, p_circ_id).
or_circuit_new(w, c, p_circ_id, p_chan) ==
  circuit_set_p_circid_chan(
    [w EXCEPT !.circ[c] = [NoCircuit EXCEPT !.state = "NEW"]],
    c, p_circ_id, p_chan)

\* onionskin_answer(): the CREATED cell is queued for p_chan and the
\* circuit is open; -1 when the cell cannot be made.
onionskin_answer(w, c, cell_type, ok) ==
  IF ~ok THEN Ret(w, -1)
  ELSE Ret([circuit_set_state(w, c, "OPEN")
              EXCEPT !.chan[w.circ[c].p_chan].handed =
                       Append(@, [command |-> cell_type,
                                  circ_id |-> w.circ[c].p_circ_id,
                                  reason |-> 0])], 0)

\* dos_cc_new_create_cell(): the DoS mitigation subsystem is told of a
\* CREATE cell on the channel.
dos_cc_new_create_cell(w, ch) == [w EXCEPT !.chan[ch].dos_cc_informed = TRUE]

\* cell->circ_id & (1u<<31) on a channel with wide_circ_ids,
\* cell->circ_id & (1u<<15) on one without.
id_is_high(w, ch, circ_id) ==
  IF w.chan[ch].wide_circ_ids
    THEN (circ_id \div HighBit(WideCircIdBits)) % 2 = 1
    ELSE (circ_id \div HighBit(NarrowCircIdBits)) % 2 = 1

\* command_process_create_cell().  cell.fault tells what goes wrong after
\* the circuit has been made: the cell does not parse ("parse"), the
\* onionskin cannot be handed to a worker or the keys cannot be made
\* ("handshake"), the CREATED_FAST cell cannot be made ("answer").
command_process_create_cell_high_only(w, ch, cell, dos_refuse) ==
  IF circuit_id_in_use_on_channel(w, cell.circ_id, ch) THEN w
  ELSE IF w.conf.hibernating
    THEN channel_send_destroy(w, cell.circ_id, ch,
                              END_CIRC_REASON_HIBERNATING)
  ELSE IF dos_refuse
    THEN channel_send_destroy(w, cell.circ_id, ch,
                              END_CIRC_REASON_RESOURCELIMIT)
  ELSE IF \/ ~w.conf.server_mode
          \/ ~w.conf.public_server_mode /\ w.chan[ch].is_outgoing
    THEN channel_send_destroy(w, cell.circ_id, ch,
                              END_CIRC_REASON_TORPROTOCOL)
  ELSE IF id_is_high(w, ch, cell.circ_id)
          /\ w.chan[ch].circ_id_type = "HIGHER"
    THEN channel_send_destroy(w, cell.circ_id, ch,
                              END_CIRC_REASON_TORPROTOCOL)
  ELSE
    LET c == FreeSlot(w)
        w1 == circuit_set_state(
                [or_circuit_new(w, c, cell.circ_id, ch)
                   EXCEPT !.circ[c].purpose = "OR"],
                c, "ONIONSKIN_PENDING")
    IN IF cell.fault = "parse"
         THEN circuit_mark_for_close(w1, c, END_CIRC_REASON_TORPROTOCOL)
       ELSE IF cell.handshake_type = "TAP"
         THEN circuit_mark_for_close(w1, c, END_CIRC_REASON_TORPROTOCOL)
       ELSE IF cell.handshake_type # "FAST"
         THEN IF cell.fault = "handshake"
                THEN circuit_mark_for_close(w1, c,
                                            END_CIRC_REASON_RESOURCELIMIT)
                ELSE w1
       ELSE
         LET w2 == [w1 EXCEPT !.circ[c].used_legacy_circuit_handshake = TRUE]
         IN IF cell.fault = "handshake"
              THEN circuit_mark_for_close(w2, c, END_CIRC_REASON_INTERNAL)
            ELSE IF onionskin_answer(w2, c, "CREATED_FAST",
                                     cell.fault # "answer").ret < 0
              THEN circuit_mark_for_close(w2, c, END_CIRC_REASON_INTERNAL)
              ELSE Ret(onionskin_answer(w2, c, "CREATED_FAST", TRUE), 0)

\* command_process_create_cell() from its first check on.
create_cell_after_dos(w, ch, cell, dos_refuse) ==
  IF cell.circ_id = 0 THEN w
  ELSE IF circuit_id_in_use_on_channel(w, cell.circ_id, ch) THEN w
  ELSE IF w.conf.hibernating
    THEN channel_send_destroy(w, cell.circ_id, ch,
                              END_CIRC_REASON_HIBERNATING)
  ELSE IF dos_refuse
    THEN channel_send_destroy(w, cell.circ_id, ch,
                              END_CIRC_REASON_RESOURCELIMIT)
  ELSE IF \/ ~w.conf.server_mode
          \/ ~w.conf.public_server_mode /\ w.chan[ch].is_outgoing
    THEN channel_send_destroy(w, cell.circ_id, ch,
                              END_CIRC_REASON_TORPROTOCOL)
  ELSE IF \/ id_is_high(w, ch, cell.circ_id)
             /\ w.chan[ch].circ_id_type = "HIGHER"
          \/ ~id_is_high(w, ch, cell.circ_id)
             /\ w.chan[ch].circ_id_type = "LOWER"
    THEN channel_send_destroy(w, cell.circ_id, ch,
                              END_CIRC_REASON_TORPROTOCOL)
  ELSE
    LET c == FreeSlot(w)
        w1 == circuit_set_state(
                [or_circuit_new(w, c, cell.circ_id, ch)
                   EXCEPT !.circ[c].purpose = "OR"],
                c, "ONIONSKIN_PENDING")
    IN IF cell.fault = "parse"
         THEN circuit_mark_for_close(w1, c, END_CIRC_REASON_TORPROTOCOL)
       ELSE IF cell.handshake_type = "TAP"
         THEN circuit_mark_for_close(w1, c, END_CIRC_REASON_TORPROTOCOL)
       ELSE IF cell.handshake_type # "FAST"
         THEN IF cell.fault = "handshake"
                THEN circuit_mark_for_close(w1, c,
                                            END_CIRC_REASON_RESOURCELIMIT)
                ELSE w1
       ELSE
         LET w2 == [w1 EXCEPT !.circ[c].used_legacy_circuit_handshake = TRUE]
         IN IF cell.fault = "handshake"
              THEN circuit_mark_for_close(w2, c, END_CIRC_REASON_INTERNAL)
            ELSE IF onionskin_answer(w2, c, "CREATED_FAST",
                                     cell.fault # "answer").ret < 0
              THEN circuit_mark_for_close(w2, c, END_CIRC_REASON_INTERNAL)
              ELSE Ret(onionskin_answer(w2, c, "CREATED_FAST", TRUE), 0)

\* A variant of command_process_create_cell() that looks at the circuit id
\* before it tells the DoS mitigation subsystem.
command_process_create_cell_validates_first(w, ch, cell, dos_refuse) ==
  IF \/ cell.circ_id = 0
     \/ circuit_id_in_use_on_channel(w, cell.circ_id, ch)
    THEN w
    ELSE create_cell_after_dos(dos_cc_new_create_cell(w, ch), ch, cell,
                               dos_refuse)

command_process_create_cell(w, ch, cell, dos_refuse) ==
  create_cell_after_dos(dos_cc_new_create_cell(w, ch), ch, cell, dos_refuse)

\* command_process_destroy_cell(): circ is what
\* circuit_get_by_circid_channel() returned.
command_process_destroy_cell_remote_reason(w, ch, cell, c) ==
  IF c = NULL THEN w
  ELSE
    LET w1 == [w EXCEPT !.circ[c].received_destroy = TRUE]
    IN IF /\ ~CIRCUIT_IS_ORIGIN(w1, c)
          /\ ch = w1.circ[c].p_chan
          /\ cell.circ_id = w1.circ[c].p_circ_id
         THEN circuit_mark_for_close(
                circuit_set_p_circid_chan(w1, c, 0, NULL), c,
                END_CIRC_REASON_DESTROYED)
         ELSE circuit_mark_for_close(
                circuit_set_n_circid_chan(w1, c, 0, NULL), c,
                cell.reason + END_CIRC_REASON_FLAG_REMOTE)

command_process_destroy_cell_keeps_chan(w, ch, cell, c) ==
  IF c = NULL THEN w
  ELSE
    LET w1 == [w EXCEPT !.circ[c].received_destroy = TRUE]
    IN IF CIRCUIT_IS_ORIGIN(w1, c)
         THEN circuit_mark_for_close(
                w1, c, cell.reason + END_CIRC_REASON_FLAG_REMOTE)
         ELSE circuit_mark_for_close(w1, c, END_CIRC_REASON_DESTROYED)

command_process_destroy_cell(w, ch, cell, c) ==
  IF c = NULL THEN w
  ELSE
    LET w1 == [w EXCEPT !.circ[c].received_destroy = TRUE]
    IN IF /\ ~CIRCUIT_IS_ORIGIN(w1, c)
          /\ ch = w1.circ[c].p_chan
          /\ cell.circ_id = w1.circ[c].p_circ_id
         THEN circuit_mark_for_close(
                circuit_set_p_circid_chan(w1, c, 0, NULL), c,
                END_CIRC_REASON_DESTROYED)
         ELSE
           IF CIRCUIT_IS_ORIGIN(w1, c)
             THEN circuit_mark_for_close(
                    circuit_set_n_circid_chan(w1, c, 0, NULL), c,
                    cell.reason + END_CIRC_REASON_FLAG_REMOTE)
             ELSE circuit_mark_for_close(
                    circuit_set_n_circid_chan(w1, c, 0, NULL), c,
                    END_CIRC_REASON_DESTROYED)

\* circuit_about_to_free(): a circuit that is marked for close tells each
\* side that still has a channel with a DESTROY cell that carries the
\* reason the circuit was marked with, and is gone.
circuit_about_to_free(w, c) ==
  LET reason == w.circ[c].marked_for_close_reason
      n_side(v) ==
        IF v.circ[c].n_chan = NULL THEN v
        ELSE circuit_set_n_circid_chan(
               channel_send_destroy(v, v.circ[c].n_circ_id, v.circ[c].n_chan,
                                    reason), c, 0, NULL)
      p_side(v) ==
        IF CIRCUIT_IS_ORIGIN(v, c) \/ v.circ[c].p_chan = NULL THEN v
        ELSE circuit_set_p_circid_chan(
               channel_send_destroy(v, v.circ[c].p_circ_id, v.circ[c].p_chan,
                                    reason), c, 0, NULL)
      freed(v) == [v EXCEPT !.circ[c] = NoCircuit]
  IN freed(p_side(n_side(w)))

\* The reason bytes of the DESTROY cells that arrive.
DestroyReasons == {END_CIRC_REASON_TORPROTOCOL, END_CIRC_REASON_DESTROYED}

\* The circuits a run starts with: a relay circuit between P and N, an
\* origin circuit on N, both, or none.
CmdCircuit(c, present) ==
  IF c \notin present THEN NoCircuit
  ELSE IF c = "c1"
    THEN [NoCircuit EXCEPT !.state = "OPEN", !.purpose = "OR",
                           !.p_chan = "P", !.p_circ_id = 1,
                           !.n_chan = "N", !.n_circ_id = 1]
    ELSE [NoCircuit EXCEPT !.is_origin = TRUE, !.state = "OPEN",
                           !.purpose = "C_GENERAL",
                           !.n_chan = "N",
                           !.n_circ_id = HighBit(NarrowCircIdBits)]

\* The runs: which circuits exist, what the relay is (a public server, a
\* bridge-like server that is not public, a client; hibernating or not),
\* and for channel P (the peer connected to us) the side of the circuit id
\* space that we use and the width of its circuit ids.  N is a channel we
\* opened, with narrow circuit ids, on which we use the high ids.
CmdScenarios ==
  {[present |-> pr, server_mode |-> TRUE, public_server_mode |-> TRUE,
    hibernating |-> FALSE, circ_id_type |-> t, wide_circ_ids |-> wd] :
     pr \in {{"c1", "c2"}},
     t \in {"LOWER", "HIGHER", "NEITHER"}, wd \in BOOLEAN}
  \cup {[present |-> {}, server_mode |-> sm[1], public_server_mode |-> sm[2],
         hibernating |-> hb, circ_id_type |-> "HIGHER",
         wide_circ_ids |-> TRUE] :
          sm \in {<<TRUE, FALSE>>, <<FALSE, FALSE>>, <<TRUE, TRUE>>},
          hb \in BOOLEAN}

InitCommand ==
  /\ \E sc \in CmdScenarios :
       /\ circ = [c \in CmdCircs |-> CmdCircuit(c, sc.present)]
       /\ chan = [ch \in Chans |->
                    [handed |-> <<>>, marked_for_close |-> FALSE,
                     circ_id_type |->
                       IF ch = "P" THEN sc.circ_id_type ELSE "HIGHER",
                     wide_circ_ids |-> ch = "P" /\ sc.wide_circ_ids,
                     is_outgoing |-> ch = "N",
                     dos_cc_informed |-> FALSE]]
       /\ conf = [server_mode |-> sc.server_mode,
                  public_server_mode |-> sc.public_server_mode,
                  hibernating |-> sc.hibernating]
  /\ hop = <<>>
  /\ stream = <<>>
  /\ cmux = <<>>
  /\ next_id = 1
  /\ last = NoCall
  /\ dns = NULL
  /\ RestIdle

\* The relay as a cell finds it: handed holds the cells that the call gives
\* to each channel, dos_cc_informed tells whether the call tells the DoS
\* mitigation subsystem of a CREATE cell on the channel.
Cmd ==
  [World EXCEPT !.chan = [ch \in Chans |->
                            [chan[ch] EXCEPT !.handed = <<>>,
                                             !.dos_cc_informed = FALSE]]]

CommitCommand(w2, call) ==
  /\ circ' = w2.circ
  /\ chan' = w2.chan
  /\ last' = call
  /\ UNCHANGED <<hop, stream, cmux, conf, next_id, dns>>
  /\ UNCHANGED rest_vars

CreateCells(ch) ==
  {[circ_id |-> id, handshake_type |-> h, fault |-> f] :
     id \in CircIdsOn(Cmd, ch),
     h \in {"TAP", "FAST", "NTOR"},
     f \in {"none", "parse", "handshake", "answer"}}

\* A CREATE, CREATE_FAST or CREATE2 cell arrives on a channel.
CreateCell ==
  \E ch \in Chans, dos_refuse \in BOOLEAN :
    \E cell \in CreateCells(ch) :
      /\ Cmd.circ[FreeSlot(Cmd)].state = "FREE"
      /\ cell.handshake_type = "TAP" => cell.fault \in {"none", "parse"}
      /\ cell.handshake_type = "NTOR" => cell.fault # "answer"
      /\ CommitCommand(command_process_create_cell(Cmd, ch, cell, dos_refuse),
                       [op |-> "create", chan |-> ch,
                        circ_id |-> cell.circ_id])

\* A DESTROY cell arrives on a channel.
DestroyCell ==
  \E ch \in Chans, reason \in DestroyReasons :
    \E circ_id \in CircIdsOn(Cmd, ch) :
      \E c \in circuit_get_by_circid_channel(Cmd, circ_id, ch) :
        LET noted(w2) ==
              IF c = NULL THEN w2
              ELSE [w2 EXCEPT !.circ[c].destroy_from = @ \cup {ch}]
        IN CommitCommand(
             noted(command_process_destroy_cell(
                     Cmd, ch, [circ_id |-> circ_id, reason |-> reason], c)),
             [op |-> "destroy", chan |-> ch, circ_id |-> circ_id,
              reason |-> reason, circ |-> c])

\* circuit_close_all_marked(): a circuit that is marked for close is freed.
CloseMarkedCircuit ==
  \E c \in Allocated(Cmd) :
    /\ Cmd.circ[c].marked_for_close
    /\ CommitCommand(circuit_about_to_free(Cmd, c),
                     [op |-> "close", circ |-> c])

NextCommand == CreateCell \/ DestroyCell \/ CloseMarkedCircuit

SpecCommand == InitCommand /\ [][NextCommand]_vars

\* ------------------------------------------------------------------------
\* Path bias accounting of an entry guard (circpathbias.c).
\*
\* A client with one entry guard.  The counters of the guard are doubles in
\* the program; here they are whole numbers of 1/PbUnit, which holds every
\* value that MaxScalings multiplications by pb_multfactor/pb_scalefactor
\* produce from a whole count.

\* The number of times that a counter is scaled before it is no longer a
\* whole number of 1/PbUnit.
MaxScalings == 1
\* The number of circuits that the client launches in a run.
MaxLaunched == 3
\* The number of circuit attempts after which the close rate is looked at,
\* 150 in the program; scaled.
pb_mincircs == 1
\* The number of circuit attempts after which the counters are scaled, 300
\* in the program; scaled.
pb_scalecircs == 3
\* The number of use attempts after which the use rate is looked at, 20 in
\* the program; scaled.
pb_minuse == 1
\* The number of use attempts after which the use counters are scaled, 100
\* in the program; scaled.
pb_scaleuse == 3

DFLT_PATH_BIAS_NOTICE_PCT == 70
DFLT_PATH_BIAS_WARN_PCT == 50
DFLT_PATH_BIAS_EXTREME_PCT == 30
DFLT_PATH_BIAS_NOTICE_USE_PCT == 80
DFLT_PATH_BIAS_EXTREME_USE_PCT == 60
pb_multfactor == 1
pb_scalefactor == 2
END_CIRC_REASON_CHANNEL_CLOSED == 8
END_CIRC_REASON_FINISHED == 9

PbUnit == pb_scalefactor ^ MaxScalings

PATH_STATE_NEW_CIRC == 0
PATH_STATE_BUILD_ATTEMPTED == 1
PATH_STATE_BUILD_SUCCEEDED == 2
PATH_STATE_USE_ATTEMPTED == 3
PATH_STATE_USE_SUCCEEDED == 4
PATH_STATE_USE_FAILED == 5
PATH_STATE_ALREADY_COUNTED == 6

PbCircSeq == <<"o1", "o2">>
PbCircs == {PbCircSeq[k] : k \in 1 .. Len(PbCircSeq)}
Nonces == {"0.0.0.1", "0.0.0.2"}
ProbeStreamId == 1

\* No circuit in the slot.
NoOriginCircuit ==
  [exists |-> FALSE, purpose |-> "C_GENERAL", onehop_tunnel |-> FALSE,
   path_state |-> PATH_STATE_NEW_CIRC, pathbias_shouldcount |-> "UNDECIDED",
   has_opened |-> FALSE, marked_for_close |-> FALSE,
   pathbias_probe_id |-> 0, pathbias_probe_nonce |-> NULL]

\* origin_circuit_new(): a circuit through the guard.
NewOriginCircuit(purpose, onehop_tunnel) ==
  [NoOriginCircuit EXCEPT !.exists = TRUE, !.purpose = purpose,
                          !.onehop_tunnel = onehop_tunnel]

\* The path bias state of a guard that has carried no circuit.
NewGuard ==
  [circ_attempts |-> 0, circ_successes |-> 0,
   successful_circuits_closed |-> 0, collapsed_circuits |-> 0,
   unusable_circuits |-> 0, timeouts |-> 0, use_attempts |-> 0,
   use_successes |-> 0, path_bias_disabled |-> FALSE,
   path_bias_extreme |-> FALSE, path_bias_warned |-> FALSE,
   path_bias_noticed |-> FALSE, path_bias_use_extreme |-> FALSE,
   path_bias_use_noticed |-> FALSE]

\* The client as a call finds it.
Pb == [circ |-> circ, guard |-> guard, conf |-> conf, ret |-> 0]

\* pathbias_should_count() that counts a circuit that it has ignored before.
pathbias_should_count_forgets(w, c) ==
  IF \/ ~w.conf.UseEntryGuards
     \/ w.circ[c].purpose = "TESTING"
     \/ w.circ[c].onehop_tunnel
    THEN [w EXCEPT !.circ[c].pathbias_shouldcount = "IGNORED", !.ret = 0]
    ELSE [w EXCEPT !.circ[c].pathbias_shouldcount = "COUNTED", !.ret = 1]

\* pathbias_should_count(): ret is 1 for a circuit that is counted.  The
\* circuits of the model have no hop chosen by the controller.
pathbias_should_count(w, c) ==
  IF \/ ~w.conf.UseEntryGuards
     \/ w.circ[c].purpose = "TESTING"
    THEN [w EXCEPT !.circ[c].pathbias_shouldcount = "IGNORED", !.ret = 0]
    ELSE IF w.circ[c].onehop_tunnel
      THEN [w EXCEPT !.circ[c].pathbias_shouldcount = "IGNORED", !.ret = 0]
      ELSE IF w.circ[c].pathbias_shouldcount = "IGNORED"
        THEN [w EXCEPT !.ret = 0]
        ELSE [w EXCEPT !.circ[c].pathbias_shouldcount = "COUNTED",
                       !.ret = 1]

\* The circuits that pathbias_count_circs_in_states() looks at closely.
InStates(w, from, to) ==
  {c \in PbCircs : /\ w.circ[c].exists
                   /\ ~w.circ[c].marked_for_close
                   /\ w.circ[c].path_state >= from
                   /\ w.circ[c].path_state <= to}

\* pathbias_count_circs_in_states(): ret is the number of open circuits of
\* the guard with a path state from from to to.
pathbias_count_circs_in_states(w, from, to) ==
  [w EXCEPT !.circ = [c \in PbCircs |->
                        IF c \in InStates(w, from, to)
                          THEN pathbias_should_count(w, c).circ[c]
                          ELSE w.circ[c]],
            !.ret = Cardinality({c \in InStates(w, from, to) :
                                   pathbias_should_count(w, c).ret = 1})]

\* pathbias_get_close_success_count(), in ret.
pathbias_get_close_success_count(w) ==
  LET added(w1) ==
        [w1 EXCEPT !.ret = w.guard.successful_circuits_closed
                             + PbUnit * w1.ret]
  IN added(pathbias_count_circs_in_states(w, PATH_STATE_BUILD_SUCCEEDED,
                                          PATH_STATE_USE_SUCCEEDED))

\* pathbias_get_use_success_count(), in ret.
pathbias_get_use_success_count(w) ==
  LET added(w1) ==
        [w1 EXCEPT !.ret = w.guard.use_successes + PbUnit * w1.ret]
  IN added(pathbias_count_circs_in_states(w, PATH_STATE_USE_ATTEMPTED,
                                          PATH_STATE_USE_SUCCEEDED))

\* count / attempts < pct / 100.0
RateBelow(count, attempts, pct) == count * 100 < pct * attempts

\* pathbias_measure_use_rate()
pathbias_measure_use_rate(w) ==
  LET measured(w1) ==
        IF RateBelow(w1.ret, w.guard.use_attempts,
                     DFLT_PATH_BIAS_EXTREME_USE_PCT)
          THEN IF w.conf.PathBiasDropGuards
                 THEN [w1 EXCEPT !.guard.path_bias_disabled = TRUE]
                 ELSE [w1 EXCEPT !.guard.path_bias_use_extreme = TRUE]
          ELSE IF RateBelow(w1.ret, w.guard.use_attempts,
                            DFLT_PATH_BIAS_NOTICE_USE_PCT)
            THEN [w1 EXCEPT !.guard.path_bias_use_noticed = TRUE]
            ELSE w1
  IN IF w.guard.use_attempts > pb_minuse * PbUnit
       THEN measured(pathbias_get_use_success_count(w))
       ELSE w

\* pathbias_measure_close_rate()
pathbias_measure_close_rate(w) ==
  LET measured(w1) ==
        IF RateBelow(w1.ret, w.guard.circ_attempts,
                     DFLT_PATH_BIAS_EXTREME_PCT)
          THEN IF w.conf.PathBiasDropGuards
                 THEN [w1 EXCEPT !.guard.path_bias_disabled = TRUE]
                 ELSE [w1 EXCEPT !.guard.path_bias_extreme = TRUE]
          ELSE IF RateBelow(w1.ret, w.guard.circ_attempts,
                            DFLT_PATH_BIAS_WARN_PCT)
            THEN [w1 EXCEPT !.guard.path_bias_warned = TRUE]
            ELSE IF RateBelow(w1.ret, w.guard.circ_attempts,
                              DFLT_PATH_BIAS_NOTICE_PCT)
              THEN [w1 EXCEPT !.guard.path_bias_noticed = TRUE]
              ELSE w1
  IN IF w.guard.circ_attempts > pb_mincircs * PbUnit
       THEN measured(pathbias_get_close_success_count(w))
       ELSE w

\* count * scale_ratio
Scaled(count) == (count * pb_multfactor) \div pb_scalefactor

\* count * scale_ratio is a whole number of 1/PbUnit.
ScalesExactly(count) == (count * pb_multfactor) % pb_scalefactor = 0

\* pathbias_scale_close_rates() that scales the circuits that are open with
\* the others.
pathbias_scale_close_rates_all(w) ==
  IF w.guard.circ_attempts > pb_scalecircs * PbUnit
    THEN [w EXCEPT !.guard.circ_attempts = Scaled(@),
                   !.guard.circ_successes = Scaled(@),
                   !.guard.timeouts = Scaled(@),
                   !.guard.successful_circuits_closed = Scaled(@),
                   !.guard.collapsed_circuits = Scaled(@),
                   !.guard.unusable_circuits = Scaled(@)]
    ELSE w

\* pathbias_scale_close_rates()
pathbias_scale_close_rates(w) ==
  LET scaled(w2, opened_attempts, opened_built) ==
        [w2 EXCEPT
           !.guard.circ_attempts =
              Scaled(@ - (opened_attempts + opened_built) * PbUnit)
                + (opened_attempts + opened_built) * PbUnit,
           !.guard.circ_successes =
              Scaled(@ - opened_built * PbUnit) + opened_built * PbUnit,
           !.guard.timeouts = Scaled(@),
           !.guard.successful_circuits_closed = Scaled(@),
           !.guard.collapsed_circuits = Scaled(@),
           !.guard.unusable_circuits = Scaled(@)]
      built(w1, opened_attempts) ==
        LET counted(w2) == scaled(w2, opened_attempts, w2.ret)
        IN counted(pathbias_count_circs_in_states(
                      w1, PATH_STATE_BUILD_SUCCEEDED, PATH_STATE_USE_FAILED))
      attempted(w1) == built(w1, w1.ret)
  IN IF w.guard.circ_attempts > pb_scalecircs * PbUnit
       THEN attempted(pathbias_count_circs_in_states(
                        w, PATH_STATE_BUILD_ATTEMPTED,
                        PATH_STATE_BUILD_ATTEMPTED))
       ELSE w

\* pathbias_scale_use_rates() that does not put back the attempts of the
\* circuits that are open.
pathbias_scale_use_rates_drops_open(w) ==
  LET scaled(w1) ==
        [w1 EXCEPT !.guard.use_attempts = Scaled(@ - w1.ret * PbUnit),
                   !.guard.use_successes = Scaled(@)]
  IN IF w.guard.use_attempts > pb_scaleuse * PbUnit
       THEN scaled(pathbias_count_circs_in_states(
                     w, PATH_STATE_USE_ATTEMPTED, PATH_STATE_USE_SUCCEEDED))
       ELSE w

\* pathbias_scale_use_rates()
pathbias_scale_use_rates(w) ==
  LET scaled(w1) ==
        [w1 EXCEPT !.guard.use_attempts =
                      Scaled(@ - w1.ret * PbUnit) + w1.ret * PbUnit,
                   !.guard.use_successes = Scaled(@)]
  IN IF w.guard.use_attempts > pb_scaleuse * PbUnit
       THEN scaled(pathbias_count_circs_in_states(
                     w, PATH_STATE_USE_ATTEMPTED, PATH_STATE_USE_SUCCEEDED))
       ELSE w

\* entry_guard_inc_circ_attempt_count() that counts for a guard that is
\* disabled.
entry_guard_inc_circ_attempt_count_disabled(w) ==
  LET counted(w1) ==
        [w1 EXCEPT !.guard.circ_attempts = @ + PbUnit,
                   !.ret = IF w1.guard.path_bias_disabled THEN -1 ELSE 0]
      measured(w1) == counted(pathbias_scale_close_rates(w1))
  IN measured(pathbias_measure_close_rate(w))

\* entry_guard_inc_circ_attempt_count()
entry_guard_inc_circ_attempt_count(w) ==
  LET counted(w1) ==
        [w1 EXCEPT !.guard.circ_attempts = @ + PbUnit, !.ret = 0]
      measured(w1) ==
        IF w1.guard.path_bias_disabled
          THEN [w1 EXCEPT !.ret = -1]
          ELSE counted(pathbias_scale_close_rates(w1))
  IN measured(pathbias_measure_close_rate(w))

\* pathbias_count_build_attempt() for a circuit whose second hop is about to
\* get its keys.
pathbias_count_build_attempt(w, c) ==
  LET attempted(w1) ==
        IF w1.ret < 0 THEN [w1 EXCEPT !.ret = -END_CIRC_REASON_TORPROTOCOL]
                      ELSE [w1 EXCEPT !.ret = 0]
      counted(w1) ==
        IF w1.ret = 0 THEN w1
        ELSE IF w1.circ[c].has_opened THEN [w1 EXCEPT !.ret = 0]
        ELSE IF w1.circ[c].path_state = PATH_STATE_NEW_CIRC
          THEN attempted(entry_guard_inc_circ_attempt_count(
                  [w1 EXCEPT !.circ[c].path_state =
                                PATH_STATE_BUILD_ATTEMPTED]))
          ELSE [w1 EXCEPT !.ret = 0]
  IN counted(pathbias_should_count(w, c))

\* pathbias_count_build_success()
pathbias_count_build_success(w, c) ==
  LET counted(w1) ==
        IF w1.ret = 0 THEN w1
        ELSE IF /\ ~w1.circ[c].has_opened
                /\ w1.circ[c].path_state = PATH_STATE_BUILD_ATTEMPTED
          THEN [w1 EXCEPT !.circ[c].path_state = PATH_STATE_BUILD_SUCCEEDED,
                          !.guard.circ_successes = @ + PbUnit]
          ELSE w1
  IN [counted(pathbias_should_count(w, c)) EXCEPT !.ret = 0]

\* pathbias_count_use_attempt()
pathbias_count_use_attempt(w, c) ==
  LET scaled(w1) ==
        [w1 EXCEPT !.guard.use_attempts = @ + PbUnit,
                   !.circ[c].path_state = PATH_STATE_USE_ATTEMPTED]
      measured(w1) == scaled(pathbias_scale_use_rates(w1))
      counted(w1) ==
        IF w1.ret = 0 THEN w1
        ELSE IF w1.circ[c].path_state < PATH_STATE_BUILD_SUCCEEDED THEN w1
        ELSE IF w1.circ[c].path_state < PATH_STATE_USE_ATTEMPTED
          THEN measured(pathbias_measure_use_rate(w1))
          ELSE w1
  IN [counted(pathbias_should_count(w, c)) EXCEPT !.ret = 0]

\* pathbias_mark_use_success()
pathbias_mark_use_success(w, c) ==
  LET marked(w1) ==
        [w1 EXCEPT !.circ[c].path_state = PATH_STATE_USE_SUCCEEDED]
      counted(w1) ==
        IF w1.ret = 0 THEN w1
        ELSE IF w1.circ[c].path_state < PATH_STATE_USE_ATTEMPTED
          THEN marked(pathbias_count_use_attempt(w1, c))
          ELSE marked(w1)
  IN [counted(pathbias_should_count(w, c)) EXCEPT !.ret = 0]

\* pathbias_mark_use_rollback()
pathbias_mark_use_rollback(w, c) ==
  IF w.circ[c].path_state = PATH_STATE_USE_SUCCEEDED
    THEN [w EXCEPT !.circ[c].path_state = PATH_STATE_USE_ATTEMPTED]
    ELSE w

\* pathbias_count_use_success()
pathbias_count_use_success(w, c) ==
  LET counted(w1) ==
        IF w1.ret = 1 /\ w1.circ[c].path_state = PATH_STATE_USE_SUCCEEDED
          THEN [w1 EXCEPT !.guard.use_successes = @ + PbUnit]
          ELSE w1
  IN [counted(pathbias_should_count(w, c)) EXCEPT !.ret = 0]

\* pathbias_count_successful_close()
pathbias_count_successful_close(w, c) ==
  LET counted(w1) ==
        IF w1.ret = 1
          THEN [w1 EXCEPT !.guard.successful_circuits_closed = @ + PbUnit]
          ELSE w1
  IN [counted(pathbias_should_count(w, c)) EXCEPT !.ret = 0]

\* pathbias_count_collapse()
pathbias_count_collapse(w, c) ==
  LET counted(w1) ==
        IF w1.ret = 1
          THEN [w1 EXCEPT !.guard.collapsed_circuits = @ + PbUnit]
          ELSE w1
  IN [counted(pathbias_should_count(w, c)) EXCEPT !.ret = 0]

\* pathbias_count_use_failed()
pathbias_count_use_failed(w, c) ==
  LET counted(w1) ==
        IF w1.ret = 1
          THEN [w1 EXCEPT !.guard.unusable_circuits = @ + PbUnit]
          ELSE w1
  IN [counted(pathbias_should_count(w, c)) EXCEPT !.ret = 0]

\* What keeps pathbias_send_usable_probe() from sending its cell.
ProbeFaults == {"hop_not_open", "chan_closed", "no_stream_id"}

\* pathbias_send_usable_probe() with nonce from crypto_rand(): ret is 0 when
\* the BEGIN cell for nonce is on its way.
pathbias_send_usable_probe(w, c, fault, nonce) ==
  IF fault = "hop_not_open" THEN [w EXCEPT !.ret = -1]
  ELSE IF /\ w.circ[c].purpose = "PATH_BIAS_TESTING"
          /\ w.circ[c].pathbias_probe_id # 0
    THEN [w EXCEPT !.ret = -1]
  ELSE IF fault = "chan_closed" THEN [w EXCEPT !.ret = -1]
  ELSE IF fault = "no_stream_id"
    THEN [w EXCEPT !.circ[c].purpose = "PATH_BIAS_TESTING",
                   !.circ[c].pathbias_probe_nonce = nonce,
                   !.circ[c].pathbias_probe_id = 0,
                   !.ret = -1]
    ELSE [w EXCEPT !.circ[c].purpose = "PATH_BIAS_TESTING",
                   !.circ[c].pathbias_probe_nonce = nonce,
                   !.circ[c].pathbias_probe_id = ProbeStreamId,
                   !.ret = 0]

\* reason & END_CIRC_REASON_FLAG_REMOTE
IsRemote(reason) == (reason \div END_CIRC_REASON_FLAG_REMOTE) % 2 = 1

\* pathbias_check_close(): ret is -1 when the circuit is probed first.
\* chan_closed_by_us tells whether the channel of the circuit was closed
\* because that was asked for (CHANNEL_CLOSE_REQUESTED).
pathbias_check_close(w, c, reason, chan_closed_by_us, fault, nonce) ==
  LET done(w1) ==
        [w1 EXCEPT !.circ[c].path_state = PATH_STATE_ALREADY_COUNTED,
                   !.ret = 0]
      used(w1) == pathbias_count_use_success(w1, c)
      probed(w1) ==
        IF w1.ret = 0 THEN [w1 EXCEPT !.ret = -1]
                      ELSE done(pathbias_count_use_failed(w1, c))
      checked(w1) ==
        IF w1.ret = 0 THEN w1
        ELSE IF w1.circ[c].path_state = PATH_STATE_BUILD_SUCCEEDED
          THEN IF IsRemote(reason)
                 THEN done(pathbias_count_collapse(w1, c))
               ELSE IF /\ reason = END_CIRC_REASON_CHANNEL_CLOSED
                       /\ ~chan_closed_by_us
                 THEN done(pathbias_count_collapse(w1, c))
                 ELSE done(pathbias_count_successful_close(w1, c))
        ELSE IF w1.circ[c].path_state = PATH_STATE_USE_ATTEMPTED
          THEN probed(pathbias_send_usable_probe(w1, c, fault, nonce))
        ELSE IF w1.circ[c].path_state = PATH_STATE_USE_SUCCEEDED
          THEN done(used(pathbias_count_successful_close(w1, c)))
        ELSE IF w1.circ[c].path_state = PATH_STATE_USE_FAILED
          THEN done(pathbias_count_use_failed(w1, c))
          ELSE done(w1)
  IN checked(pathbias_should_count(w, c))

\* circuit_mark_for_close() of an origin circuit: a circuit that is to be
\* probed stays open.
pb_circuit_mark_for_close(w, c, reason, chan_closed_by_us, fault, nonce) ==
  LET checked(w1) ==
        IF w1.ret = -1 THEN w1
                       ELSE [w1 EXCEPT !.circ[c].marked_for_close = TRUE]
  IN IF w.circ[c].marked_for_close THEN w
     ELSE checked(pathbias_check_close(w, c, reason, chan_closed_by_us,
                                       fault, nonce))

\* The cells that come back on a circuit that is being probed: length is
\* the length of the body, host the address after the reason in it.
\* They are the END cell that an exit sends for the probe, with any
\* address, and the cells that differ from it in one field.
ProbeResponses ==
  {m \in [command : {"END", "DATA"}, reason : {"EXITPOLICY", "MISC"},
          stream_id : {ProbeStreamId, ProbeStreamId + 1}, length : {5, 9},
          host : Nonces] :
     Cardinality({f \in {"command", "reason", "stream_id", "length"} :
                    m[f] # [command |-> "END", reason |-> "EXITPOLICY",
                            stream_id |-> ProbeStreamId, length |-> 9][f]})
       <= 1}

\* pathbias_check_probe_response() that takes any END cell with the
\* EXITPOLICY reason on the stream of the probe.
pathbias_check_probe_response_any_host(w, c, msg) ==
  IF /\ msg.command = "END" /\ msg.reason = "EXITPOLICY"
     /\ w.circ[c].pathbias_probe_id = msg.stream_id
    THEN IF msg.length < 9
           THEN [w EXCEPT !.ret = -END_CIRC_REASON_TORPROTOCOL]
           ELSE [pb_circuit_mark_for_close(
                    pathbias_mark_use_success(w, c), c,
                    END_CIRC_REASON_FINISHED, TRUE, "ok",
                    w.circ[c].pathbias_probe_nonce)
                   EXCEPT !.ret = 0]
    ELSE [w EXCEPT !.ret = -1]

\* pathbias_check_probe_response()
pathbias_check_probe_response(w, c, msg) ==
  IF /\ msg.command = "END" /\ msg.reason = "EXITPOLICY"
     /\ w.circ[c].pathbias_probe_id = msg.stream_id
    THEN IF msg.length < 9
           THEN [w EXCEPT !.ret = -END_CIRC_REASON_TORPROTOCOL]
         ELSE IF msg.host = w.circ[c].pathbias_probe_nonce
           THEN [pb_circuit_mark_for_close(
                    pathbias_mark_use_success(w, c), c,
                    END_CIRC_REASON_FINISHED, TRUE, "ok",
                    w.circ[c].pathbias_probe_nonce)
                   EXCEPT !.ret = 0]
           ELSE [w EXCEPT !.ret = -1]
    ELSE [w EXCEPT !.ret = -1]

\* A guard that has carried circuits up to the thresholds for scaling,
\* which were all used with success and closed by the client.
GoodGuard ==
  [NewGuard EXCEPT !.circ_attempts = pb_scalecircs * PbUnit,
                   !.circ_successes = pb_scalecircs * PbUnit,
                   !.successful_circuits_closed = pb_scalecircs * PbUnit,
                   !.use_attempts = pb_scaleuse * PbUnit,
                   !.use_successes = pb_scaleuse * PbUnit]

\* A guard that has carried circuits up to the threshold for scaling, of
\* which all but one collapsed before they were used.
BadGuard ==
  [NewGuard EXCEPT !.circ_attempts = pb_scalecircs * PbUnit,
                   !.circ_successes = pb_scalecircs * PbUnit,
                   !.successful_circuits_closed = PbUnit,
                   !.collapsed_circuits = (pb_scalecircs - 1) * PbUnit]

\* The runs of the client.  With a guard that has carried many circuits:
\* circuits are built and closed.  With a new guard: circuits are built,
\* used, probed and closed.  Without path bias accounting: the client uses
\* no entry guards, or its circuits are testing circuits and one-hop
\* tunnels.
PbScenarios ==
  {[guard |-> g, UseEntryGuards |-> TRUE, PathBiasDropGuards |-> d,
    kinds |-> {<<"C_GENERAL", FALSE>>}, env |-> {}] :
     g \in {GoodGuard, BadGuard}, d \in BOOLEAN}
  \cup {[guard |-> NewGuard, UseEntryGuards |-> TRUE,
         PathBiasDropGuards |-> TRUE, kinds |-> {<<"C_GENERAL", FALSE>>},
         env |-> {"use"}]}
  \cup {[guard |-> NewGuard, UseEntryGuards |-> TRUE,
         PathBiasDropGuards |-> TRUE,
         kinds |-> {<<"TESTING", FALSE>>, <<"C_GENERAL", TRUE>>},
         env |-> {"use"}],
        [guard |-> NewGuard, UseEntryGuards |-> FALSE,
         PathBiasDropGuards |-> FALSE, kinds |-> {<<"C_GENERAL", FALSE>>},
         env |-> {"use"}]}

InitPathBias ==
  /\ circ = [c \in PbCircs |-> NoOriginCircuit]
  /\ \E sc \in PbScenarios :
       /\ guard = sc.guard
       /\ conf = [UseEntryGuards |-> sc.UseEntryGuards,
                  PathBiasDropGuards |-> sc.PathBiasDropGuards,
                  kinds |-> sc.kinds, env |-> sc.env]
  /\ hop = <<>>
  /\ stream = <<>>
  /\ cmux = <<>>
  /\ chan = <<>>
  /\ next_id = 1
  /\ last = NoCall
  /\ dns = NULL
  /\ cache = NULL
  /\ mem = NULL
  /\ or_conn = NULL
  /\ addressmap = NULL

PbCommit(w2, call) ==
  /\ circ' = w2.circ
  /\ guard' = w2.guard
  /\ last' = call
  /\ next_id' = IF call.op = "origin_circuit_new" THEN next_id + 1
                                                  ELSE next_id
  /\ UNCHANGED <<hop, stream, cmux, chan, conf, dns, cache, mem, or_conn>>
  /\ UNCHANGED addressmap

\* The circuits that are open.
OpenCircuits == {c \in PbCircs : circ[c].exists /\ ~circ[c].marked_for_close}

\* The counters that pathbias_scale_close_rates() would scale stay whole
\* numbers of 1/PbUnit.
CloseRatesScaleExactly ==
  guard.circ_attempts > pb_scalecircs * PbUnit =>
    /\ ScalesExactly(guard.circ_attempts)
    /\ ScalesExactly(guard.circ_successes)
    /\ ScalesExactly(guard.timeouts)
    /\ ScalesExactly(guard.successful_circuits_closed)
    /\ ScalesExactly(guard.collapsed_circuits)
    /\ ScalesExactly(guard.unusable_circuits)

UseRatesScaleExactly ==
  guard.use_attempts > pb_scaleuse * PbUnit =>
    /\ ScalesExactly(guard.use_attempts)
    /\ ScalesExactly(guard.use_successes)

\* The client launches a circuit through the guard: a general circuit, a
\* testing circuit or a one-hop tunnel.  A short run has one circuit fewer.
LaunchCircuit ==
  \E c \in PbCircs, kind \in conf.kinds :
    /\ ~circ[c].exists
    /\ next_id <= MaxLaunched
    /\ "short" \in conf.env => next_id < MaxLaunched
    /\ \E k \in 1 .. Len(PbCircSeq) :
         /\ c = PbCircSeq[k]
         /\ \A j \in 1 .. k - 1 : circ[PbCircSeq[j]].exists
    /\ PbCommit([Pb EXCEPT !.circ[c] = NewOriginCircuit(kind[1], kind[2])],
                [op |-> "origin_circuit_new", circ |-> c, ret |-> 0])

\* The second hop of a circuit is about to get its keys:
\* pathbias_count_build_attempt(), and the circuit is closed when that
\* fails.  The record of the call tells whether it found the guard
\* disabled.
BuildAttempt ==
  \E c \in OpenCircuits :
    /\ circ[c].path_state = PATH_STATE_NEW_CIRC \/ circ[c].has_opened
    /\ CloseRatesScaleExactly
    /\ LET closed(w1) ==
             IF w1.ret < 0
               THEN [pb_circuit_mark_for_close(w1, c, -w1.ret, TRUE, "ok",
                                               NULL)
                       EXCEPT !.ret = w1.ret]
               ELSE w1
           attempted(w1) ==
             PbCommit(w1, [op |-> "build_attempt", circ |-> c,
                           found |-> guard.path_bias_disabled,
                           ret |-> w1.ret])
       IN attempted(closed(pathbias_count_build_attempt(Pb, c)))

\* A circuit has all its hops: pathbias_count_build_success(), and then
\* circuit_has_opened().
BuildSuccess ==
  \E c \in OpenCircuits :
    /\ ~circ[c].has_opened
    /\ \/ circ[c].path_state >= PATH_STATE_BUILD_ATTEMPTED
       \/ circ[c].pathbias_shouldcount = "IGNORED"
    /\ PbCommit([pathbias_count_build_success(Pb, c)
                   EXCEPT !.circ[c].has_opened = TRUE],
                [op |-> "build_success", circ |-> c, ret |-> 0])

\* A stream is attached to a circuit: pathbias_count_use_attempt().
UseAttempt ==
  \E c \in OpenCircuits :
    /\ "use" \in conf.env
    /\ circ[c].has_opened
    /\ circ[c].purpose # "PATH_BIAS_TESTING"
    /\ UseRatesScaleExactly
    /\ PbCommit(pathbias_count_use_attempt(Pb, c),
                [op |-> "use_attempt", circ |-> c, ret |-> 0])

\* A stream of a circuit gets its CONNECTED cell:
\* pathbias_mark_use_success().
UseSuccess ==
  \E c \in OpenCircuits :
    /\ "use" \in conf.env
    /\ circ[c].has_opened
    /\ circ[c].purpose # "PATH_BIAS_TESTING"
    /\ \/ circ[c].path_state >= PATH_STATE_USE_ATTEMPTED
       \/ circ[c].pathbias_shouldcount = "IGNORED"
    /\ PbCommit(pathbias_mark_use_success(Pb, c),
                [op |-> "use_success", circ |-> c, ret |-> 0])

\* A stream is detached from a circuit to be tried again:
\* pathbias_mark_use_rollback().
UseRollback ==
  \E c \in OpenCircuits :
    /\ "use" \in conf.env
    /\ circ[c].has_opened
    /\ circ[c].purpose # "PATH_BIAS_TESTING"
    /\ PbCommit(pathbias_mark_use_rollback(Pb, c),
                [op |-> "use_rollback", circ |-> c, ret |-> 0])

\* pathbias_check_close() asks for a probe of the circuit that
\* pathbias_send_usable_probe() does not refuse at once.
ProbeWanted(c) ==
  /\ circ[c].path_state = PATH_STATE_USE_ATTEMPTED
  /\ circ[c].pathbias_shouldcount = "COUNTED"
  /\ ~(circ[c].purpose = "PATH_BIAS_TESTING" /\ circ[c].pathbias_probe_id # 0)

CloseReasons ==
  {END_CIRC_REASON_FINISHED, END_CIRC_REASON_CHANNEL_CLOSED,
   END_CIRC_REASON_FLAG_REMOTE + END_CIRC_REASON_DESTROYED}

\* circuit_mark_for_close() of a circuit with a reason.
MarkCircuit ==
  \E c \in OpenCircuits, reason \in CloseReasons,
     chan_closed_by_us \in BOOLEAN, fault \in {"ok"} \cup ProbeFaults,
     nonce \in Nonces :
    /\ reason # END_CIRC_REASON_CHANNEL_CLOSED => chan_closed_by_us
    /\ circ[c].path_state # PATH_STATE_BUILD_SUCCEEDED => chan_closed_by_us
    /\ circ[c].path_state # PATH_STATE_USE_ATTEMPTED => fault = "ok"
    /\ fault \in {"hop_not_open", "chan_closed"} \/ ~ProbeWanted(c) =>
         nonce = "0.0.0.1"
    /\ LET marked(w1) ==
             PbCommit(w1, [op |-> "mark_for_close", circ |-> c,
                           reason |-> reason,
                           chan_closed_by_us |-> chan_closed_by_us,
                           fault |-> fault, ret |-> w1.ret])
       IN marked(pb_circuit_mark_for_close(Pb, c, reason, chan_closed_by_us,
                                           fault, nonce))

\* A relay cell comes back on a circuit that is being probed (relay.c,
\* connection_edge_process_relay_cell()).
ProbeResponse ==
  \E c \in OpenCircuits, msg \in ProbeResponses :
    /\ circ[c].purpose = "PATH_BIAS_TESTING"
    /\ LET answered(w1) ==
             PbCommit(w1, [op |-> "probe_response", circ |-> c, msg |-> msg,
                           ret |-> w1.ret])
       IN answered(pathbias_check_probe_response(Pb, c, msg))

\* A circuit that is marked for close is freed.
FreeCircuit ==
  \E c \in PbCircs :
    /\ circ[c].exists /\ circ[c].marked_for_close
    /\ PbCommit([Pb EXCEPT !.circ[c] = NoOriginCircuit],
                [op |-> "free", circ |-> c, ret |-> 0])

NextPathBias ==
  \/ LaunchCircuit
  \/ BuildAttempt
  \/ BuildSuccess
  \/ UseAttempt
  \/ UseSuccess
  \/ UseRollback
  \/ MarkCircuit
  \/ ProbeResponse
  \/ FreeCircuit

SpecPathBias == InitPathBias /\ [][NextPathBias]_vars

\* A client whose guard has carried circuits up to the thresholds for
\* scaling, all of which went well, and whose circuits are built, used,
\* probed and closed, in a short run.
UsedGuardScenario ==
  [guard |-> GoodGuard, UseEntryGuards |-> TRUE,
   PathBiasDropGuards |-> FALSE, kinds |-> {<<"C_GENERAL", FALSE>>},
   env |-> {"use", "short"}]

InitPathBiasUsed ==
  /\ circ = [c \in PbCircs |-> NoOriginCircuit]
  /\ guard = UsedGuardScenario.guard
  /\ conf = [UseEntryGuards |-> UsedGuardScenario.UseEntryGuards,
             PathBiasDropGuards |-> UsedGuardScenario.PathBiasDropGuards,
             kinds |-> UsedGuardScenario.kinds,
             env |-> UsedGuardScenario.env]
  /\ hop = <<>>
  /\ stream = <<>>
  /\ cmux = <<>>
  /\ chan = <<>>
  /\ next_id = 1
  /\ last = NoCall
  /\ dns = NULL
  /\ cache = NULL
  /\ mem = NULL
  /\ or_conn = NULL
  /\ addressmap = NULL

SpecPathBiasUsed == InitPathBiasUsed /\ [][NextPathBias]_vars

\* The reasons of the END cells that come for a stream that is not open.
PbEndReasons == {"TORPROTOCOL", "INTERNAL", "EXITPOLICY"}

\* connection_ap_process_end_not_open(), what it does to the path state of
\* the circuit for an END cell with a body: ret is the reason to close the
\* circuit with, negated, or 0.
pb_connection_ap_process_end_not_open(w, c, reason) ==
  IF reason \in {"TORPROTOCOL", "DESTROY"}
    THEN [w EXCEPT !.circ[c].path_state = PATH_STATE_USE_FAILED,
                   !.ret = -END_CIRC_REASON_TORPROTOCOL]
  ELSE IF reason = "INTERNAL" THEN [w EXCEPT !.ret = 0]
  ELSE [pathbias_mark_use_success(w, c) EXCEPT !.ret = 0]

\* An END cell comes for a stream of a circuit that is not open yet, and the
\* circuit is closed when the cell tells of a failed tag.
PbEndNotOpen ==
  \E c \in OpenCircuits, reason \in PbEndReasons :
    /\ "use" \in conf.env
    /\ circ[c].has_opened
    /\ circ[c].purpose # "PATH_BIAS_TESTING"
    /\ \/ circ[c].path_state >= PATH_STATE_USE_ATTEMPTED
       \/ circ[c].pathbias_shouldcount = "IGNORED"
    /\ LET closed(w1) ==
             IF w1.ret < 0
               THEN [pb_circuit_mark_for_close(w1, c, -w1.ret, TRUE, "ok",
                                               NULL)
                       EXCEPT !.ret = w1.ret]
               ELSE w1
           ended(w1) ==
             PbCommit(w1, [op |-> "end_not_open", circ |-> c,
                           reason |-> reason, ret |-> w1.ret])
       IN ended(closed(pb_connection_ap_process_end_not_open(Pb, c, reason)))

\* The options of the client are set again with another UseEntryGuards,
\* which pathbias_should_count() reads from get_options() in every call;
\* once in a run.
SetUseEntryGuards ==
  /\ "options" \in conf.env
  /\ conf' = [conf EXCEPT !.UseEntryGuards = ~@, !.env = @ \ {"options"}]
  /\ last' = [op |-> "set_options", circ |-> NULL, ret |-> 0]
  /\ UNCHANGED <<circ, guard, next_id, hop, stream, cmux, chan, dns, cache,
                 mem, or_conn, addressmap>>

\* A client that starts without entry guards and is told to use them while
\* its circuits are built, used, probed and closed, in a short run; its
\* guard has carried circuits up to the thresholds for scaling.
OptionsScenario ==
  [guard |-> GoodGuard, UseEntryGuards |-> FALSE,
   PathBiasDropGuards |-> FALSE, kinds |-> {<<"C_GENERAL", FALSE>>},
   env |-> {"use", "short", "options"}]

InitPathBiasOnce ==
  /\ circ = [c \in PbCircs |-> NoOriginCircuit]
  /\ guard = OptionsScenario.guard
  /\ conf = [UseEntryGuards |-> OptionsScenario.UseEntryGuards,
             PathBiasDropGuards |-> OptionsScenario.PathBiasDropGuards,
             kinds |-> OptionsScenario.kinds, env |-> OptionsScenario.env]
  /\ hop = <<>>
  /\ stream = <<>>
  /\ cmux = <<>>
  /\ chan = <<>>
  /\ next_id = 1
  /\ last = NoCall
  /\ dns = NULL
  /\ cache = NULL
  /\ mem = NULL
  /\ or_conn = NULL
  /\ addressmap = NULL

NextPathBiasOnce == NextPathBias \/ PbEndNotOpen \/ SetUseEntryGuards

SpecPathBiasOnce == InitPathBiasOnce /\ [][NextPathBiasOnce]_vars

\* ------------------------------------------------------------------------
\* The microdescriptor cache (microdesc.c).
\*
\* Every microdescriptor is one unit long and has no annotation.  A body is
\* nowhere, on the heap or in a mapping of the cache file; mapped holds the
\* mappings that are mapped.

\* The number of mappings of the cache file in a run.
MaxMaps == 2
\* The length of the journal below which the cache is not rebuilt, 16384 in
\* the program; scaled.
MinJournalLen == 1

Mds == {"m1", "m2"}

NullBody == [at |-> "null", map |-> 0]
HeapBody == [at |-> "heap", map |-> 0]
MappedBody(m) == [at |-> "map", map |-> m]

\* No microdescriptor with the digest in the map.
NoMd ==
  [held_in_map |-> FALSE, saved_location |-> "SAVED_NOWHERE",
   body |-> NullBody, no_save |-> FALSE, is_old |-> FALSE]

\* The microdescriptors as microdesc_cache_reload() leaves them: read from
\* the cache file, of which some have not been listed for long; read from
\* the journal; or not there.
LoadedMds ==
  {[NoMd EXCEPT !.held_in_map = TRUE, !.saved_location = "SAVED_IN_CACHE",
                !.body = MappedBody(1), !.is_old = old] : old \in BOOLEAN}
  \cup {[NoMd EXCEPT !.held_in_map = TRUE,
                     !.saved_location = "SAVED_IN_JOURNAL",
                     !.body = HeapBody],
        NoMd}

\* microdesc_wipe_body()
microdesc_wipe_body(md) ==
  [md EXCEPT !.saved_location = "SAVED_NOWHERE", !.body = NullBody,
             !.no_save = TRUE]

\* microdesc_cache_clean(cache, 0, 0): live tells whether there is a
\* reasonably live consensus.  No microdescriptor is held by a node.
microdesc_cache_clean(c, live) ==
  IF ~live THEN c
  ELSE [c EXCEPT !.map = [m \in Mds |-> IF c.map[m].held_in_map
                                          /\ c.map[m].is_old
                                          THEN NoMd ELSE c.map[m]],
                 !.bytes_dropped =
                    @ + Cardinality({m \in Mds : /\ c.map[m].held_in_map
                                                 /\ c.map[m].is_old})]

\* should_rebuild_md_cache()
should_rebuild_md_cache(c) ==
  IF c.journal_len < MinJournalLen THEN FALSE
  ELSE IF c.bytes_dropped > (c.journal_len + c.cache_size) \div 3 THEN TRUE
  ELSE c.journal_len > c.cache_size \div 2

\* What goes wrong in a rebuild: the new file can not be opened, can not be
\* finished, or can not be mapped.
RebuildFaults == {"start_writing", "finish_writing", "mmap"}

\* The microdescriptors that the loop of microdesc_cache_rebuild() writes.
Dumped(c, dump_fails) ==
  {m \in Mds : /\ c.map[m].held_in_map
               /\ ~c.map[m].no_save
               /\ c.map[m].body # NullBody
               /\ m \notin dump_fails}

\* The loop of microdesc_cache_rebuild() over the map: dump_fails are the
\* microdescriptors that can not be written.
DumpAll(c, dump_fails) ==
  [c EXCEPT !.map =
     [m \in Mds |->
        IF ~c.map[m].held_in_map \/ c.map[m].no_save
             \/ c.map[m].body = NullBody
          THEN c.map[m]
        ELSE IF m \in dump_fails THEN microdesc_wipe_body(c.map[m])
        ELSE IF c.map[m].saved_location # "SAVED_IN_CACHE"
          THEN [c.map[m] EXCEPT !.body = NullBody,
                                !.saved_location = "SAVED_IN_CACHE"]
          ELSE c.map[m]]]

\* tor_munmap_file() of the mapping of the cache, if there is one.
UnmapContent(c) ==
  [c EXCEPT !.mapped = @ \ {c.cache_content}, !.cache_content = 0]

\* The end of microdesc_cache_rebuild() after a failure of
\* finish_writing_to_file().
WipeCached(c) ==
  [c EXCEPT !.cache_content = 0,
            !.map = [m \in Mds |->
                       IF /\ c.map[m].held_in_map
                          /\ c.map[m].saved_location = "SAVED_IN_CACHE"
                         THEN microdesc_wipe_body(c.map[m])
                         ELSE c.map[m]],
            !.ret = -1]

\* microdesc_cache_rebuild(): ret is 0 or -1, unmapped tells whether the
\* call has unmapped the cache file.
microdesc_cache_rebuild(c, force, live, fault, dump_fails) ==
  LET mapped_again(c1, wrote) ==
        IF fault = "mmap" /\ wrote # {}
          THEN [c1 EXCEPT !.ret = -1]
        ELSE IF wrote = {}
          THEN [c1 EXCEPT !.cache_size = 0, !.journal_len = 0,
                          !.bytes_dropped = 0, !.ret = 0]
          ELSE [c1 EXCEPT !.cache_content = c1.next_map,
                          !.mapped = @ \cup {c1.next_map},
                          !.next_map = @ + 1,
                          !.map = [m \in Mds |->
                                     IF m \in wrote
                                       THEN [c1.map[m] EXCEPT
                                               !.body =
                                                  MappedBody(c1.next_map)]
                                       ELSE c1.map[m]],
                          !.cache_size = Cardinality(wrote),
                          !.journal_len = 0, !.bytes_dropped = 0, !.ret = 0]
      written(c1, wrote) ==
        IF fault = "finish_writing"
          THEN WipeCached(c1)
          ELSE mapped_again(c1, wrote)
      cleaned(c1) ==
        IF ~force /\ ~should_rebuild_md_cache(c1) THEN [c1 EXCEPT !.ret = 0]
        ELSE IF fault = "start_writing" THEN [c1 EXCEPT !.ret = -1]
        ELSE written([UnmapContent(DumpAll(c1, dump_fails))
                        EXCEPT !.unmapped = c1.cache_content # 0],
                     Dumped(c1, dump_fails))
  IN cleaned(microdesc_cache_clean(c, live))

\* microdescs_add_list_to_cache() for one new microdescriptor that is saved
\* nowhere: journal_ok tells whether it can be appended to the journal.
microdescs_add_list_to_cache(c, m, no_save, journal_ok) ==
  IF ~no_save /\ journal_ok
    THEN [c EXCEPT !.map[m] = [NoMd EXCEPT !.held_in_map = TRUE,
                                           !.saved_location =
                                              "SAVED_IN_JOURNAL",
                                           !.body = HeapBody],
                   !.journal_len = @ + 1]
    ELSE [c EXCEPT !.map[m] = [NoMd EXCEPT !.held_in_map = TRUE,
                                           !.body = HeapBody,
                                           !.no_save = no_save]]

\* The cache after microdesc_cache_reload(): the cache file is mapped if it
\* holds a microdescriptor.
InitMicrodesc ==
  /\ \E map \in [Mds -> LoadedMds] :
       LET cached == {m \in Mds : map[m].saved_location = "SAVED_IN_CACHE"}
           journal == {m \in Mds :
                         map[m].saved_location = "SAVED_IN_JOURNAL"}
       IN cache = [map |-> map,
                   cache_content |-> IF cached = {} THEN 0 ELSE 1,
                   mapped |-> IF cached = {} THEN {} ELSE {1},
                   next_map |-> 2,
                   cache_size |-> Cardinality(cached),
                   journal_len |-> Cardinality(journal),
                   bytes_dropped |-> 0, ret |-> 0, unmapped |-> FALSE]
  /\ circ = <<>>
  /\ hop = <<>>
  /\ stream = <<>>
  /\ cmux = <<>>
  /\ chan = <<>>
  /\ conf = <<>>
  /\ next_id = 1
  /\ last = NoCall
  /\ dns = NULL
  /\ guard = NULL
  /\ mem = NULL
  /\ or_conn = NULL
  /\ addressmap = NULL

\* The cache as a call finds it.
Md == [cache EXCEPT !.ret = 0, !.unmapped = FALSE]

CommitMicrodesc(c2, call) ==
  /\ cache' = c2
  /\ last' = call
  /\ UNCHANGED <<circ, hop, stream, cmux, chan, conf, next_id, dns, guard>>
  /\ UNCHANGED <<mem, or_conn, addressmap>>

\* A new microdescriptor arrives from a directory.
AddMicrodesc ==
  \E m \in Mds, no_save \in BOOLEAN, journal_ok \in BOOLEAN :
    /\ ~cache.map[m].held_in_map
    /\ no_save => journal_ok
    /\ CommitMicrodesc(microdescs_add_list_to_cache(Md, m, no_save,
                                                    journal_ok),
                       [op |-> "microdescs_add_list_to_cache", md |-> m,
                        ret |-> 0])

\* The cache is rebuilt.
Rebuild ==
  \E force \in BOOLEAN, live \in BOOLEAN,
     fault \in {"ok"} \cup RebuildFaults, dump_fails \in SUBSET Mds :
    /\ cache.next_map <= MaxMaps
    /\ LET rebuilt(c2) ==
             CommitMicrodesc(c2, [op |-> "microdesc_cache_rebuild",
                                  force |-> force, fault |-> fault,
                                  ret |-> c2.ret])
       IN rebuilt(microdesc_cache_rebuild(Md, force, live, fault,
                                          dump_fails))

NextMicrodesc == AddMicrodesc \/ Rebuild

SpecMicrodesc == InitMicrodesc /\ [][NextMicrodesc]_vars

\* ------------------------------------------------------------------------
\* An END cell for a client stream that is not open yet (relay.c).

MAX_RESOLVE_FAILURES == 3

\* The number of circuits that carry a stream in a run.
MaxAttached == 5

ApConns == {"ap1"}
Hostname == "www.example"
\* The addresses that an exit reports: none, 0.0.0.0, an internal one, two
\* public ones.
UnspecAddr == [family |-> "AF_UNSPEC", str |-> "unspec"]
ExitAddrs ==
  {[family |-> "AF_INET", str |-> "0.0.0.0"],
   [family |-> "AF_INET", str |-> "10.0.0.1"],
   [family |-> "AF_INET", str |-> "192.0.2.1"],
   [family |-> "AF_INET6", str |-> "2001:db8::1"]}
ApAddresses == {Hostname} \cup {a.str : a \in ExitAddrs}

tor_addr_is_null(a) == a.family = "AF_UNSPEC" \/ a.str = "0.0.0.0"
tor_addr_is_internal(a) == a.str = "10.0.0.1"

EndReasons ==
  {"MISC", "RESOLVEFAILED", "CONNECTREFUSED", "EXITPOLICY", "DESTROY",
   "DONE", "TIMEOUT", "NOROUTE", "HIBERNATING", "INTERNAL", "RESOURCELIMIT",
   "TORPROTOCOL"}

\* The END messages: without a body, with a reason, and the EXITPOLICY ones
\* with an address (of 4 or 16 bytes) or with three bytes too few for one.
EndMsgs ==
  {[length |-> 0, reason |-> "MISC", addr |-> UnspecAddr]}
  \cup {[length |-> 1, reason |-> r, addr |-> UnspecAddr] : r \in EndReasons}
  \cup {[length |-> IF a.family = "AF_INET" THEN 5 ELSE 17,
         reason |-> "EXITPOLICY", addr |-> a] : a \in ExitAddrs}
  \cup {[length |-> 6, reason |-> "EXITPOLICY", addr |-> UnspecAddr]}

\* edge_reason_is_retriable() without NOROUTE.
edge_reason_is_retriable_routed(reason) ==
  reason \in {"HIBERNATING", "RESOURCELIMIT", "EXITPOLICY", "RESOLVEFAILED",
              "MISC"}

\* edge_reason_is_retriable()
edge_reason_is_retriable(reason) ==
  reason \in {"HIBERNATING", "RESOURCELIMIT", "EXITPOLICY", "RESOLVEFAILED",
              "MISC", "NOROUTE"}

\* A client stream that waits for a circuit.
NewApConn(rend, ipv6_traffic, chosen_exit_optional) ==
  [state |-> "CIRCUIT_WAIT", address |-> Hostname, on_circ |-> NULL,
   marked_for_close |-> FALSE, end_reason |-> NULL, end_remote |-> FALSE,
   is_rendezvous |-> rend, ipv4_traffic |-> TRUE,
   ipv6_traffic |-> ipv6_traffic,
   chosen_exit_optional |-> chosen_exit_optional, detached |-> 0]

\* A circuit that is built and can carry a stream.
BuiltCircuit ==
  [exists |-> TRUE, purpose |-> "C_GENERAL", onehop_tunnel |-> FALSE,
   path_state |-> PATH_STATE_BUILD_SUCCEEDED,
   pathbias_shouldcount |-> "COUNTED", has_opened |-> TRUE,
   marked_for_close |-> FALSE, pathbias_probe_id |-> 0,
   pathbias_probe_nonce |-> NULL, unusable_for_new_conns |-> FALSE]

Ap ==
  [circ |-> circ, guard |-> guard, conf |-> conf, stream |-> stream,
   addressmap |-> addressmap, ret |-> 0]

\* connection_mark_unattached_ap()
connection_mark_unattached_ap(w, s, reason, remote) ==
  [w EXCEPT !.stream[s].marked_for_close = TRUE,
            !.stream[s].end_reason = reason,
            !.stream[s].end_remote = remote]

\* connection_ap_detach_retriable(): the stream leaves its circuit and waits
\* for another one; ret is 0.
connection_ap_detach_retriable(w, s) ==
  [w EXCEPT !.stream[s].state = "CIRCUIT_WAIT",
            !.stream[s].on_circ = NULL,
            !.stream[s].detached = @ + 1,
            !.ret = 0]

\* client_dns_incr_failures(): ret is the number of failures of the
\* address.
client_dns_incr_failures(w, address) ==
  [w EXCEPT !.addressmap[address] = @ + 1,
            !.ret = w.addressmap[address] + 1]

\* client_dns_clear_failures()
client_dns_clear_failures(w, address) ==
  [w EXCEPT !.addressmap[address] = 0]

\* connection_ap_process_end_not_open(): the exit policies of the node and
\* of the circuit are not in the model.
connection_ap_process_end_not_open(w, s, msg) ==
  LET c == w.stream[s].on_circ
      reason == IF msg.length = 0 THEN "MISC" ELSE msg.reason
      closes(w1) ==
        IF w1.stream[s].marked_for_close THEN [w1 EXCEPT !.ret = 0]
        ELSE [connection_mark_unattached_ap(w1, s, reason, TRUE)
                EXCEPT !.ret = 0]
      protocol(w1) ==
        [connection_mark_unattached_ap(w1, s, "TORPROTOCOL", FALSE)
           EXCEPT !.ret = 0]
      unwanted(w1) ==
        [w1 EXCEPT !.stream[s].chosen_exit_optional = FALSE]
      exitpolicy(w1) ==
        IF msg.length >= 5
          THEN IF tor_addr_is_null(msg.addr) THEN protocol(w1)
          ELSE IF \/ /\ msg.addr.family = "AF_INET"
                     /\ ~w1.stream[s].ipv4_traffic
                  \/ /\ msg.addr.family = "AF_INET6"
                     /\ ~w1.stream[s].ipv6_traffic
            THEN protocol(w1)
          ELSE IF /\ w1.conf.ClientDNSRejectInternalAddresses
                  /\ tor_addr_is_internal(msg.addr)
            THEN protocol(w1)
          ELSE connection_ap_detach_retriable(
                 unwanted([w1 EXCEPT !.stream[s].address = msg.addr.str]),
                 s)
          ELSE connection_ap_detach_retriable(unwanted(w1), s)
      counted(w1) ==
        IF w1.ret < MAX_RESOLVE_FAILURES
          THEN connection_ap_detach_retriable(
                 unwanted([w1 EXCEPT !.circ[c].unusable_for_new_conns = TRUE]),
                 s)
          ELSE closes(client_dns_clear_failures(w1, w1.stream[s].address))
      retried(w1) ==
        IF edge_reason_is_retriable(reason) /\ ~w1.stream[s].is_rendezvous
          THEN IF reason = "EXITPOLICY" THEN exitpolicy(w1)
          ELSE IF reason \in {"RESOLVEFAILED", "TIMEOUT", "MISC", "NOROUTE"}
            THEN counted(client_dns_incr_failures(w1, w1.stream[s].address))
          ELSE IF reason \in {"HIBERNATING", "RESOURCELIMIT"}
            THEN connection_ap_detach_retriable(unwanted(w1), s)
          ELSE closes(w1)
          ELSE closes(w1)
  IN IF msg.length > 0 /\ msg.reason \in {"TORPROTOCOL", "DESTROY"}
       THEN [w EXCEPT !.circ[c].path_state = PATH_STATE_USE_FAILED,
                      !.ret = -END_CIRC_REASON_TORPROTOCOL]
     ELSE IF msg.length > 0 /\ msg.reason # "INTERNAL"
       THEN retried(pathbias_mark_use_success(w, c))
       ELSE retried(w)

\* The client has one stream for a hostname that no exit has failed to
\* reach, and a guard without history.
InitRetry ==
  /\ \E rend \in BOOLEAN, v6 \in BOOLEAN, optional \in BOOLEAN :
       /\ rend => v6 /\ ~optional
       /\ stream = [s \in ApConns |-> NewApConn(rend, v6, optional)]
  /\ \E guards \in BOOLEAN, reject \in BOOLEAN :
       conf = [UseEntryGuards |-> guards, PathBiasDropGuards |-> FALSE,
               ClientDNSRejectInternalAddresses |-> reject]
  /\ circ = [c \in PbCircs |-> [BuiltCircuit EXCEPT !.exists = FALSE]]
  /\ guard = NewGuard
  /\ addressmap = [a \in ApAddresses |-> 0]
  /\ hop = <<>>
  /\ cmux = <<>>
  /\ chan = <<>>
  /\ next_id = 1
  /\ last = NoCall
  /\ dns = NULL
  /\ cache = NULL
  /\ mem = NULL
  /\ or_conn = NULL

CommitRetry(w2, call) ==
  /\ circ' = w2.circ
  /\ guard' = w2.guard
  /\ stream' = w2.stream
  /\ addressmap' = w2.addressmap
  /\ last' = call
  /\ next_id' = IF call.op = "attach" THEN next_id + 1 ELSE next_id
  /\ UNCHANGED <<hop, cmux, chan, conf, dns, cache, mem, or_conn>>

\* A waiting stream is attached to a new circuit and its BEGIN cell is
\* sent: pathbias_count_use_attempt().
AttachStream ==
  \E s \in ApConns, c \in PbCircs :
    /\ stream[s].state = "CIRCUIT_WAIT"
    /\ ~stream[s].marked_for_close
    /\ next_id <= MaxAttached
    /\ \A s2 \in ApConns : stream[s2].on_circ # c
    /\ c = PbCircSeq[1 + (next_id % Len(PbCircSeq))]
    /\ UseRatesScaleExactly
    /\ LET attached(w1) ==
             [w1 EXCEPT !.stream[s].state = "CONNECT_WAIT",
                        !.stream[s].on_circ = c, !.ret = 0]
       IN CommitRetry(attached(pathbias_count_use_attempt(
                                 [Ap EXCEPT !.circ[c] = BuiltCircuit], c)),
                      [op |-> "attach", conn |-> s, circ |-> c, ret |-> 0])

\* An END cell arrives for a stream that waits for its CONNECTED cell.
EndNotOpen ==
  \E s \in ApConns, msg \in EndMsgs :
    /\ stream[s].state = "CONNECT_WAIT"
    /\ ~stream[s].marked_for_close
    /\ UseRatesScaleExactly
    /\ LET processed(w2) ==
             CommitRetry(w2, [op |-> "end_not_open", conn |-> s,
                              msg |-> msg, ret |-> w2.ret])
       IN processed(connection_ap_process_end_not_open(Ap, s, msg))

NextRetry == AttachStream \/ EndNotOpen

SpecRetry == InitRetry /\ [][NextRetry]_vars

\* ------------------------------------------------------------------------
\* Memory pressure (relay.c).

\* MEMORY_PRESSURE_INTERVAL is 30*60 seconds in the program; scaled.
MEMORY_PRESSURE_INTERVAL == 2
\* The seconds that pass in a run.
MaxElapsed == 4
\* The options MaxMemInQueues and MaxMemInQueues_low_threshold; scaled.
MaxMemInQueues == 10
MaxMemInQueues_low_threshold == 7

\* The clock at the start: later than MEMORY_PRESSURE_INTERVAL after the
\* epoch.
StartTime == MEMORY_PRESSURE_INTERVAL + 1

\* The sizes of the cell queues and of a cache.
QueueSizes == {0, MaxMemInQueues_low_threshold - 3,
               MaxMemInQueues_low_threshold}
CacheSizes == {0, MaxMemInQueues \div 5 + 1}

\* What a cache gives back when it is more than a fifth of MaxMemInQueues:
\* all but a tenth.
BytesToRemove(total) ==
  IF total > MaxMemInQueues \div 5 THEN total - MaxMemInQueues \div 10 ELSE 0

\* cell_queues_check_size(): alloc is the allocation of the queues, of the
\* half streams, of the buffers and of the compression state.  ret is 1 if
\* the handlers of the caches and of the circuits have been called.
cell_queues_check_size(m, alloc, hs_cache_total, geoip_client_cache_total, dns_cache_total, conflux_total) ==
  LET total == alloc + hs_cache_total + geoip_client_cache_total
                 + dns_cache_total + conflux_total
  IN IF total >= MaxMemInQueues_low_threshold
       THEN IF total >= MaxMemInQueues
              THEN [m EXCEPT
                      !.last_time_under_memory_pressure = m.now,
                      !.removed_hsdir = BytesToRemove(hs_cache_total),
                      !.removed_geoip =
                         BytesToRemove(geoip_client_cache_total),
                      !.removed_dns = BytesToRemove(dns_cache_total),
                      !.removed_conflux = BytesToRemove(conflux_total),
                      !.ret = 1]
              ELSE [m EXCEPT !.last_time_under_memory_pressure = m.now,
                             !.ret = 0]
       ELSE [m EXCEPT !.ret = 0]

\* have_been_under_memory_pressure()
have_been_under_memory_pressure(m) ==
  m.last_time_under_memory_pressure + MEMORY_PRESSURE_INTERVAL < m.now

\* The relay starts: it has not been under memory pressure.  seen_at is the
\* time at which the allocation was last found at or above the low
\* threshold, -1 before the first time.
InitMemory ==
  /\ mem = [now |-> StartTime, last_time_under_memory_pressure |-> 0,
            seen_at |-> -1]
  /\ circ = <<>>
  /\ hop = <<>>
  /\ stream = <<>>
  /\ cmux = <<>>
  /\ chan = <<>>
  /\ conf = <<>>
  /\ next_id = 1
  /\ last = NoCall
  /\ dns = NULL
  /\ guard = NULL
  /\ cache = NULL
  /\ or_conn = NULL
  /\ addressmap = NULL

MemUnchanged ==
  UNCHANGED <<circ, hop, stream, cmux, chan, conf, next_id, dns, guard,
              cache, or_conn, addressmap>>

\* A second passes.
AdvanceTime ==
  /\ mem.now < StartTime + MaxElapsed
  /\ mem' = [mem EXCEPT !.now = @ + 1]
  /\ last' = [op |-> "approx_time", ret |-> mem.now + 1]
  /\ MemUnchanged

\* A cell has been queued: cell_queues_check_size().
CheckSize ==
  \E alloc \in QueueSizes, hs \in CacheSizes, geoip \in CacheSizes,
     dnsc \in CacheSizes, conflux \in CacheSizes :
    LET checked(m2) ==
          /\ mem' = [mem EXCEPT
                       !.last_time_under_memory_pressure =
                          m2.last_time_under_memory_pressure,
                       !.seen_at =
                          IF alloc + hs + geoip + dnsc + conflux
                               >= MaxMemInQueues_low_threshold
                            THEN mem.now ELSE @]
          /\ last' = [op |-> "cell_queues_check_size",
                      total |-> alloc + hs + geoip + dnsc + conflux,
                      removed |-> m2.removed_hsdir + m2.removed_geoip
                                    + m2.removed_dns + m2.removed_conflux,
                      ret |-> m2.ret]
          /\ MemUnchanged
    IN checked(cell_queues_check_size(
                 [now |-> mem.now,
                  last_time_under_memory_pressure |->
                    mem.last_time_under_memory_pressure,
                  removed_hsdir |-> 0, removed_geoip |-> 0,
                  removed_dns |-> 0, removed_conflux |-> 0, ret |-> 0],
                 alloc, hs, geoip, dnsc, conflux))

\* The relay asks whether it has been under memory pressure.
AskMemoryPressure ==
  /\ last' = [op |-> "have_been_under_memory_pressure",
              ret |-> have_been_under_memory_pressure(mem)]
  /\ UNCHANGED mem
  /\ MemUnchanged

NextMemory == AdvanceTime \/ CheckSize \/ AskMemoryPressure

SpecMemory == InitMemory /\ [][NextMemory]_vars

\* ------------------------------------------------------------------------
\* The Extended ORPort handshake (ext_orport.c, as test_extorport.c drives
\* it).
\*
\* A byte of a buffer is a tuple: <<"b", v>> is the byte v, <<"h", label,
\* client_nonce, server_nonce, k>> is byte k of the HMAC-SHA256 with the
\* cookie of the label and the two nonces, and <<"cmd", c, ok>> is a whole
\* command c whose body is well formed or not.

\* EXT_OR_PORT_AUTH_NONCE_LEN and EXT_OR_PORT_AUTH_HASH_LEN are 32 in the
\* program; scaled.
EXT_OR_PORT_AUTH_NONCE_LEN == 2
EXT_OR_PORT_AUTH_HASH_LEN == 2
\* The commands that wait in the input buffer of an open connection.
MaxExtCmds == 2

EXT_OR_AUTHTYPE_SAFECOOKIE == 1
BadAuthType == 153

Byte(v) == <<"b", v>>
ClientLabel == "ExtORPort authentication client-to-server hash"
ServerLabel == "ExtORPort authentication server-to-client hash"

\* HMAC-SHA256(cookie, label | client_nonce | server_nonce)
ExtOrHmac(label, client_nonce, server_nonce) ==
  [k \in 1 .. EXT_OR_PORT_AUTH_HASH_LEN |->
     <<"h", label, client_nonce, server_nonce, k>>]

\* The nonces that the server draws.
ServerNonces ==
  {[k \in 1 .. EXT_OR_PORT_AUTH_NONCE_LEN |-> Byte(v)] : v \in {7, 8}}

ExtOrCmds == {"DONE", "USERADDR", "TRANSPORT", "unknown"}

\* or_connection_new(CONN_TYPE_EXT_OR): auth_type, client_nonce and
\* hash_received record what the client has sent.
NewExtOrConn ==
  [type |-> "EXT_OR", state |-> "NEW", inbuf |-> <<>>, outbuf |-> <<>>,
   marked_for_close |-> FALSE, reading |-> TRUE,
   ext_or_auth_correct_client_hash |-> <<>>, server_nonce |-> <<>>,
   ext_or_transport |-> NULL, addr |-> NULL, handshake_started |-> FALSE,
   auth_type |-> <<>>, client_nonce |-> <<>>, hash_received |-> <<>>,
   ret |-> 0]

Drop(s, n) == SubSeq(s, n + 1, Len(s))
Take(s, n) == SubSeq(s, 1, n)

\* connection_ext_or_start_auth()
connection_ext_or_start_auth(o) ==
  [o EXCEPT !.state = "AUTH_WAIT_AUTH_TYPE",
            !.outbuf = @ \o <<Byte(EXT_OR_AUTHTYPE_SAFECOOKIE), Byte(0)>>,
            !.ret = 0]

\* The commands of an open connection: ret is 0 when more data is needed
\* and -1 when the connection is to be closed.
RECURSIVE ext_or_process_commands(_)
ext_or_process_commands(o) ==
  IF o.inbuf = <<>> \/ Head(o.inbuf)[1] # "cmd" THEN [o EXCEPT !.ret = 0]
  ELSE LET command == Head(o.inbuf)
           fetched == [o EXCEPT !.inbuf = Tail(@)]
       IN IF command[2] = "DONE"
            THEN IF fetched.inbuf # <<>> THEN [fetched EXCEPT !.ret = -1]
                 ELSE [fetched EXCEPT
                         !.ext_or_transport =
                            IF @ = NULL THEN "<??>" ELSE @,
                         !.outbuf = @ \o <<<<"cmd", "OKAY", TRUE>>>>,
                         !.state = "FLUSHING",
                         !.reading = FALSE,
                         !.ret = 0]
          ELSE IF command[2] = "USERADDR"
            THEN IF command[3]
                   THEN ext_or_process_commands(
                          [fetched EXCEPT !.addr = "1.2.3.4:5678"])
                   ELSE [fetched EXCEPT !.ret = -1]
          ELSE IF command[2] = "TRANSPORT"
            THEN IF command[3]
                   THEN ext_or_process_commands(
                          [fetched EXCEPT !.ext_or_transport = "rfc1149"])
                   ELSE [fetched EXCEPT !.ret = -1]
          ELSE ext_or_process_commands(fetched)

\* The client hash is compared with any hash of the two nonces.
connection_ext_or_auth_handle_client_hash_any(o) ==
  IF Len(o.inbuf) < EXT_OR_PORT_AUTH_HASH_LEN THEN [o EXCEPT !.ret = 0]
  ELSE IF /\ Take(o.inbuf, EXT_OR_PORT_AUTH_HASH_LEN)
               # o.ext_or_auth_correct_client_hash
          /\ Take(o.inbuf, EXT_OR_PORT_AUTH_HASH_LEN)
               # ExtOrHmac(ServerLabel, o.client_nonce, o.server_nonce)
    THEN [o EXCEPT !.inbuf = Drop(@, EXT_OR_PORT_AUTH_HASH_LEN),
                   !.hash_received = Take(o.inbuf, EXT_OR_PORT_AUTH_HASH_LEN),
                   !.outbuf = @ \o <<Byte(0)>>,
                   !.ret = -1]
    ELSE [o EXCEPT !.inbuf = Drop(@, EXT_OR_PORT_AUTH_HASH_LEN),
                   !.hash_received = Take(o.inbuf, EXT_OR_PORT_AUTH_HASH_LEN),
                   !.outbuf = @ \o <<Byte(1)>>,
                   !.state = "OPEN",
                   !.ret = 1]

\* connection_ext_or_auth_handle_client_hash(): ret is 1 when the
\* connection has become open.
connection_ext_or_auth_handle_client_hash(o) ==
  IF Len(o.inbuf) < EXT_OR_PORT_AUTH_HASH_LEN THEN [o EXCEPT !.ret = 0]
  ELSE IF Take(o.inbuf, EXT_OR_PORT_AUTH_HASH_LEN)
            # o.ext_or_auth_correct_client_hash
    THEN [o EXCEPT !.inbuf = Drop(@, EXT_OR_PORT_AUTH_HASH_LEN),
                   !.hash_received = Take(o.inbuf, EXT_OR_PORT_AUTH_HASH_LEN),
                   !.outbuf = @ \o <<Byte(0)>>,
                   !.ret = -1]
    ELSE [o EXCEPT !.inbuf = Drop(@, EXT_OR_PORT_AUTH_HASH_LEN),
                   !.hash_received = Take(o.inbuf, EXT_OR_PORT_AUTH_HASH_LEN),
                   !.outbuf = @ \o <<Byte(1)>>,
                   !.state = "OPEN",
                   !.ret = 1]

\* connection_ext_or_auth_handle_client_nonce() with
\* handle_client_auth_nonce(): server_nonce is the nonce that the server
\* draws.
connection_ext_or_auth_handle_client_nonce(o, server_nonce) ==
  IF Len(o.inbuf) < EXT_OR_PORT_AUTH_NONCE_LEN THEN [o EXCEPT !.ret = 0]
  ELSE LET client_nonce == Take(o.inbuf, EXT_OR_PORT_AUTH_NONCE_LEN)
       IN [o EXCEPT
             !.inbuf = Drop(@, EXT_OR_PORT_AUTH_NONCE_LEN),
             !.client_nonce = client_nonce,
             !.server_nonce = server_nonce,
             !.ext_or_auth_correct_client_hash =
                ExtOrHmac(ClientLabel, client_nonce, server_nonce),
             !.outbuf = @ \o ExtOrHmac(ServerLabel, client_nonce,
                                       server_nonce)
                          \o server_nonce,
             !.state = "AUTH_WAIT_CLIENT_HASH",
             !.ret = 1]

\* connection_ext_or_auth_neg_auth_type()
connection_ext_or_auth_neg_auth_type(o) ==
  IF Len(o.inbuf) < 1 THEN [o EXCEPT !.ret = 0]
  ELSE IF Head(o.inbuf) # Byte(EXT_OR_AUTHTYPE_SAFECOOKIE)
    THEN [o EXCEPT !.inbuf = Tail(@), !.auth_type = Head(o.inbuf),
                   !.ret = -1]
    ELSE [o EXCEPT !.inbuf = Tail(@), !.auth_type = Head(o.inbuf),
                   !.state = "AUTH_WAIT_CLIENT_NONCE", !.ret = 1]

\* connection_ext_or_process_inbuf(): ret is 0, or -1 when the connection
\* has been marked for close.
connection_ext_or_process_inbuf(o, server_nonce) ==
  LET finished(o1) ==
        IF o1.ret < 0 THEN [o1 EXCEPT !.marked_for_close = TRUE, !.ret = -1]
                      ELSE [o1 EXCEPT !.ret = 0]
      opened(o1) ==
        IF o1.ret <= 0 THEN finished(o1)
                       ELSE finished(ext_or_process_commands(o1))
      hashed(o1) ==
        IF o1.ret <= 0 THEN finished(o1)
        ELSE opened(connection_ext_or_auth_handle_client_hash(o1))
      nonced(o1) ==
        IF o1.ret <= 0 THEN finished(o1)
        ELSE hashed(connection_ext_or_auth_handle_client_nonce(
                      o1, server_nonce))
  IN IF o.state = "AUTH_WAIT_AUTH_TYPE"
       THEN nonced(connection_ext_or_auth_neg_auth_type(o))
     ELSE IF o.state = "AUTH_WAIT_CLIENT_NONCE"
       THEN hashed(connection_ext_or_auth_handle_client_nonce(
                     o, server_nonce))
     ELSE IF o.state = "AUTH_WAIT_CLIENT_HASH"
       THEN opened(connection_ext_or_auth_handle_client_hash(o))
       ELSE finished(ext_or_process_commands(o))

\* connection_ext_or_finished_flushing()
connection_ext_or_finished_flushing(o) ==
  IF o.state = "FLUSHING"
    THEN [o EXCEPT !.type = "OR", !.state = "0", !.reading = TRUE,
                   !.handshake_started = TRUE, !.ret = 0]
    ELSE [o EXCEPT !.ret = 0]

\* A connection has been accepted on the Extended ORPort.
InitExtOr ==
  /\ or_conn = NewExtOrConn
  /\ circ = <<>>
  /\ hop = <<>>
  /\ stream = <<>>
  /\ cmux = <<>>
  /\ chan = <<>>
  /\ conf = <<>>
  /\ next_id = 1
  /\ last = NoCall
  /\ dns = NULL
  /\ guard = NULL
  /\ cache = NULL
  /\ mem = NULL
  /\ addressmap = NULL

CommitExtOr(o2, call) ==
  /\ or_conn' = [o2 EXCEPT !.ret = 0]
  /\ last' = call
  /\ UNCHANGED <<circ, hop, stream, cmux, chan, conf, next_id, dns, guard,
                 cache, mem, addressmap>>

\* What the client can write before the connection is open: an auth type
\* or a byte of a nonce and, when the server has sent its hash, the next
\* byte of the hash that the server expects or of the hash that it has
\* sent.
AuthBytes ==
  {Byte(EXT_OR_AUTHTYPE_SAFECOOKIE), Byte(BadAuthType)}
  \cup (IF /\ or_conn.state = "AUTH_WAIT_CLIENT_HASH"
            /\ Len(or_conn.inbuf) < EXT_OR_PORT_AUTH_HASH_LEN
          THEN {ExtOrHmac(l, or_conn.client_nonce,
                          or_conn.server_nonce)[Len(or_conn.inbuf) + 1] :
                  l \in {ClientLabel, ServerLabel}}
          ELSE {})

\* The commands that the client can write: all are well formed but a
\* TRANSPORT with a name that is no identifier.
ClientCmds ==
  {<<"cmd", c, TRUE>> : c \in ExtOrCmds} \cup {<<"cmd", "TRANSPORT", FALSE>>}

StartAuth ==
  /\ or_conn.state = "NEW"
  /\ CommitExtOr(connection_ext_or_start_auth(or_conn),
                 [op |-> "connection_ext_or_start_auth", ret |-> 0])

\* The client writes a byte of the handshake, or a command behind a whole
\* hash or on an open connection.
ClientWrites ==
  \E b \in AuthBytes \cup ClientCmds :
    /\ or_conn.state # "NEW"
    /\ or_conn.type = "EXT_OR"
    /\ ~or_conn.marked_for_close
    /\ IF b \in ClientCmds
         THEN /\ \/ or_conn.state = "OPEN"
                 \/ /\ or_conn.state = "AUTH_WAIT_CLIENT_HASH"
                    /\ Len(or_conn.inbuf) >= EXT_OR_PORT_AUTH_HASH_LEN
              /\ Len(SelectSeq(or_conn.inbuf, LAMBDA u : u[1] = "cmd"))
                   < MaxExtCmds
         ELSE /\ or_conn.state # "OPEN"
              /\ Len(or_conn.inbuf) <= EXT_OR_PORT_AUTH_NONCE_LEN
              /\ or_conn.state = "AUTH_WAIT_CLIENT_HASH" =>
                   Len(or_conn.inbuf) < EXT_OR_PORT_AUTH_HASH_LEN
    /\ CommitExtOr([or_conn EXCEPT !.inbuf = Append(@, b)],
                   [op |-> "write", ret |-> 0])

ProcessInbuf ==
  \E server_nonce \in ServerNonces :
    /\ or_conn.state \notin {"NEW", "FLUSHING"}
    /\ or_conn.type = "EXT_OR"
    /\ or_conn.reading
    /\ ~or_conn.marked_for_close
    /\ \/ /\ or_conn.state \in {"AUTH_WAIT_AUTH_TYPE",
                                "AUTH_WAIT_CLIENT_NONCE"}
          /\ Len(or_conn.inbuf) >= EXT_OR_PORT_AUTH_NONCE_LEN
       \/ server_nonce = CHOOSE n \in ServerNonces : TRUE
    /\ LET processed(o2) ==
             CommitExtOr(o2, [op |-> "connection_ext_or_process_inbuf",
                              ret |-> o2.ret])
       IN processed(connection_ext_or_process_inbuf(or_conn, server_nonce))

FinishedFlushing ==
  /\ or_conn.state = "FLUSHING"
  /\ ~or_conn.marked_for_close
  /\ CommitExtOr(connection_ext_or_finished_flushing(or_conn),
                 [op |-> "connection_ext_or_finished_flushing", ret |-> 0])

NextExtOr == StartAuth \/ ClientWrites \/ ProcessInbuf \/ FinishedFlushing

SpecExtOr == InitExtOr /\ [][NextExtOr]_vars

\* ------------------------------------------ the DNS cache when memory is
\* low (dns.c, relay.c)

\* MAX_DNS_TTL is 60*60 in the program; scaled.
MAX_DNS_TTL == 4
\* sizeof(cached_resolve_t) and HT_MEM_USAGE(&cache_root); scaled.
CachedResolveSize == 2
HtMemUsage == 1

\* dns_cache_entry_count()
dns_cache_entry_count(d) ==
  Cardinality({a \in Hostnames : d.cache_map[a] # 0})

\* dns_cache_total_allocation()
dns_cache_total_allocation(d) ==
  CachedResolveSize * dns_cache_entry_count(d) + HtMemUsage

\* dns_cache_handle_oom() before its loop: o holds the arguments and the
\* local variables.
OomEntered(d, now, min_remove_bytes) ==
  [pc |-> "loop", now |-> now, min_remove_bytes |-> min_remove_bytes,
   time_inc |-> 0, total_bytes_removed |-> 0,
   current_size |-> dns_cache_total_allocation(d)]

\* dns_cache_handle_oom() has returned, or has not been called.
OomIdle ==
  [pc |-> "idle", now |-> 0, min_remove_bytes |-> 0, time_inc |-> 0,
   total_bytes_removed |-> 0, current_size |-> 0]

\* One pass of the loop of dns_cache_handle_oom() whose cutoff does not
\* advance.
dns_cache_handle_oom_pass_stuck(d, o) ==
  IF dns_cache_entry_count(d) = 0
    THEN [dns |-> d, oom |-> [o EXCEPT !.pc = "idle"]]
    ELSE LET purged(d1) ==
               LET bytes_removed ==
                     o.current_size - dns_cache_total_allocation(d1)
               IN [dns |-> d1,
                   oom |-> [o EXCEPT
                              !.current_size = @ - bytes_removed,
                              !.total_bytes_removed = @ + bytes_removed,
                              !.pc =
                                 IF o.total_bytes_removed + bytes_removed
                                      < o.min_remove_bytes
                                   THEN "loop" ELSE "idle"]]
         IN purged(purge_expired_resolves(d, o.now + o.time_inc))

\* One pass of the loop of dns_cache_handle_oom(): pc is "idle" when the
\* loop is left.
dns_cache_handle_oom_pass(d, o) ==
  IF dns_cache_entry_count(d) = 0
    THEN [dns |-> d, oom |-> [o EXCEPT !.pc = "idle"]]
    ELSE LET purged(d1) ==
               LET bytes_removed ==
                     o.current_size - dns_cache_total_allocation(d1)
               IN [dns |-> d1,
                   oom |-> [o EXCEPT
                              !.current_size = @ - bytes_removed,
                              !.total_bytes_removed = @ + bytes_removed,
                              !.time_inc = @ + MAX_DNS_TTL \div 4,
                              !.pc =
                                 IF o.total_bytes_removed + bytes_removed
                                      < o.min_remove_bytes
                                   THEN "loop" ELSE "idle"]]
         IN purged(purge_expired_resolves(d, o.now + o.time_inc))

\* The relay resolves the given names for the given number of clients while
\* time passes.
OomRelay(hostnames, conns) ==
  /\ circ = [c \in Circs |->
               IF c = "c1"
                 THEN NewCircuit(FALSE, "N", "OR", SENDME_TAG_LEN_TOR1, NULL)
                 ELSE NewCircuit(TRUE, "N", "C_GENERAL", SENDME_TAG_LEN_TOR1,
                                 NULL)]
  /\ stream = [s \in Streams |->
                 IF s = "s1" THEN ProfiledStream("c1", 1, NULL, "reading")
                 ELSE IF s = "s2"
                   THEN ProfiledStream("c2", 1, "h2", "reading")
                   ELSE ProfiledStream("c2", 2, "h2", "reading")]
  /\ conf = QueueConf([circuits |-> {}, env |-> {}])
  /\ hop = [h \in Hops |->
              NewHop(IF h = "h1" THEN SENDME_TAG_LEN_TOR1
                                 ELSE SENDME_TAG_LEN_CGO)]
  /\ cmux = [c \in Circs |-> [d \in {"OUT", "IN"} |-> 0]]
  /\ chan = [ch \in Chans |-> [handed |-> <<>>, marked_for_close |-> FALSE]]
  /\ next_id = 1
  /\ last = NoCall
  /\ dns = NewDns(FALSE, {}, {}, hostnames, conns,
                  {"resolve", "answer", "tick"})
  /\ mem = OomIdle
  /\ guard = NULL
  /\ cache = NULL
  /\ or_conn = NULL
  /\ addressmap = NULL

\* Two clients ask for the names x and y.
InitOom == OomRelay(Hostnames, Len(Conns))

\* One client asks for the names x and y.
InitOomFair == OomRelay(Hostnames, 1)

\* cell_queues_check_size() finds the allocation above MaxMemInQueues and
\* the DNS cache above a fifth of it: dns_cache_handle_oom() is called to
\* free all but a tenth.
OomStart ==
  /\ mem.pc = "idle"
  /\ BytesToRemove(dns_cache_total_allocation(dns)) > 0
  /\ mem' = OomEntered(dns, dns.now,
                       BytesToRemove(dns_cache_total_allocation(dns)))
  /\ last' = [op |-> "cell_queues_check_size",
              dns_cache_total |-> dns_cache_total_allocation(dns), ret |-> 1]
  /\ UNCHANGED <<circ, hop, stream, cmux, chan, conf, next_id, dns, guard,
                 cache, or_conn, addressmap>>

\* The loop of dns_cache_handle_oom() makes a pass.
OomPass ==
  /\ mem.pc = "loop"
  /\ \E r \in {dns_cache_handle_oom_pass(Dns, mem)} :
       /\ dns' = [r.dns EXCEPT !.ret = 0]
       /\ mem' = r.oom
       /\ last' = [op |-> "dns_cache_handle_oom",
                   cutoff |-> mem.now + mem.time_inc,
                   returned |-> r.oom.pc = "idle",
                   ret |-> r.oom.total_bytes_removed]
  /\ UNCHANGED <<circ, hop, stream, cmux, chan, conf, next_id, guard, cache,
                 or_conn, addressmap>>

\* The events of the resolver come between the calls of the handler.
OomResolve == mem.pc = "idle" /\ DnsResolve
OomAnswer == mem.pc = "idle" /\ DnsAnswer
OomTick == mem.pc = "idle" /\ Tick

NextOom == OomResolve \/ OomAnswer \/ OomTick \/ OomStart \/ OomPass

SpecOom == InitOom /\ [][NextOom]_vars

\* The loop goes on as long as it can.
SpecOomFair == InitOomFair /\ [][NextOom]_vars /\ WF_vars(OomPass)

\* ---------------------------------------------------------------------
\* Randomness for unpredictable SENDME tags (SpecRandomness).
\* ---------------------------------------------------------------------

\* CIRCWINDOW_INCREMENT as circuit_reset_sendme_randomness() uses it; scaled
\* on its own so that an epoch has more than one possible length.
RandomnessIncrement == 4
\* relay_cell_max_payload_size(RELAY_CELL_FORMAT_V0, RELAY_COMMAND_DATA);
\* the V1 format has one byte less in this scale.
DataPayloadMax == 6
RELAY_CELL_PADDING_GAP == 1
\* The 16 bytes of randomness asked for beside the gap; scaled.
RandomPaddingLen == 1
\* Largest number of bytes an inbuf holds when a cell is packaged.
MaxAvailable == 7
\* Cap on the number of cells one circuit packages in a run: three epochs.
MaxEpochCells == 8

RelayCellFormats == {"V0", "V1"}

relay_cell_max_payload_size(cell_format) ==
  IF cell_format = "V0" THEN DataPayloadMax ELSE DataPayloadMax - 1

\* crypto_fast_rng_get_uint(rng, limit) returns a value below limit.
FastRngUint(limit) == 0 .. limit - 1

\* A variant that forgets to reset the flag.
circuit_reset_sendme_randomness_keeps_flag(c, rnd) ==
  [c EXCEPT !.send_randomness_after_n_cells = RandomnessIncrement \div 2 + rnd,
            !.epoch_drawn = RandomnessIncrement \div 2 + rnd,
            !.epochs = @ + 1,
            !.cells_in_epoch = 0,
            !.short_in_epoch = FALSE]

\* circuit_reset_sendme_randomness() with the value rnd drawn.  epoch_drawn
\* keeps the value of the counter picked, cells_in_epoch and short_in_epoch
\* start a new count of the cells packaged.
circuit_reset_sendme_randomness(c, rnd) ==
  [c EXCEPT !.have_sent_sufficiently_random_cell = FALSE,
            !.send_randomness_after_n_cells = RandomnessIncrement \div 2 + rnd,
            !.epoch_drawn = RandomnessIncrement \div 2 + rnd,
            !.epochs = @ + 1,
            !.cells_in_epoch = 0,
            !.short_in_epoch = FALSE]

\* The result of a call that packages nothing.
NothingPackaged(c) ==
  [circ |-> c, ret |-> 0, forced |-> FALSE, reset |-> FALSE,
   assert_ok |-> TRUE, underflow |-> FALSE, free |-> 0, ended |-> c]

\* connection_edge_get_inbuf_bytes_to_package(): ret is the number of bytes
\* to package.  The counter is a uint16_t.  ended is the circuit as it is
\* when the epoch counter has been looked at and before a new epoch starts.
connection_edge_get_inbuf_bytes_to_package(c, n_available, package_partial, cell_format, rnd) ==
  LET force_random_bytes ==
        /\ c.send_randomness_after_n_cells = 0
        /\ ~c.have_sent_sufficiently_random_cell
      full_length == relay_cell_max_payload_size(cell_format)
      target_length_with_random ==
        full_length - RELAY_CELL_PADDING_GAP - RandomPaddingLen
      target_length ==
        IF force_random_bytes THEN target_length_with_random ELSE full_length
      package_length ==
        IF n_available >= target_length THEN target_length ELSE n_available
      c1 == [c EXCEPT
               !.have_sent_sufficiently_random_cell =
                  IF package_length <= target_length_with_random
                    THEN TRUE ELSE @,
               !.cells_in_epoch = @ + 1,
               !.short_in_epoch =
                  @ \/ package_length <= target_length_with_random,
               !.packaged = @ + 1]
      c2 == IF c1.send_randomness_after_n_cells = 0
              THEN circuit_reset_sendme_randomness(c1, rnd)
              ELSE c1
  IN IF n_available = 0 THEN NothingPackaged(c)
     ELSE IF n_available < target_length /\ ~package_partial
       THEN NothingPackaged(c)
     ELSE [circ |-> [c2 EXCEPT !.send_randomness_after_n_cells =
                                 (@ - 1) % 65536],
           ret |-> package_length,
           forced |-> force_random_bytes,
           reset |-> c1.send_randomness_after_n_cells = 0,
           assert_ok |-> \/ c1.send_randomness_after_n_cells # 0
                         \/ c1.have_sent_sufficiently_random_cell,
           underflow |-> c2.send_randomness_after_n_cells = 0,
           free |-> full_length - package_length,
           ended |-> c1]

\* A circuit just initialised: circuit_reset_sendme_randomness() has been
\* called on it.
NewRandomCircuit(rnd) ==
  circuit_reset_sendme_randomness(
    [have_sent_sufficiently_random_cell |-> FALSE,
     send_randomness_after_n_cells |-> 0,
     epoch_drawn |-> 0, epochs |-> 0, cells_in_epoch |-> 0,
     short_in_epoch |-> FALSE, packaged |-> 0], rnd)

InitRandomness ==
  /\ circ \in {NewRandomCircuit(rnd) :
                 rnd \in FastRngUint(RandomnessIncrement \div 2)}
  /\ last = [op |-> "none"]
  /\ hop = NULL
  /\ stream = NULL
  /\ cmux = NULL
  /\ chan = NULL
  /\ conf = NULL
  /\ next_id = 0
  /\ dns = NULL
  /\ RestIdle

\* An edge connection with n_available bytes in its inbuf packages a cell
\* for a hop of the given format.
PackageBytes ==
  /\ circ.packaged < MaxEpochCells
  /\ \E n_available \in 0 .. MaxAvailable, package_partial \in BOOLEAN,
        cell_format \in RelayCellFormats,
        rnd \in FastRngUint(RandomnessIncrement \div 2) :
       \E r \in {connection_edge_get_inbuf_bytes_to_package(
                   circ, n_available, package_partial, cell_format, rnd)} :
         /\ circ' = r.circ
         /\ last' = [op |-> "connection_edge_get_inbuf_bytes_to_package",
                     n_available |-> n_available,
                     cell_format |-> cell_format,
                     ret |-> r.ret, forced |-> r.forced, reset |-> r.reset,
                     assert_ok |-> r.assert_ok, underflow |-> r.underflow,
                     free |-> r.free, ended |-> r.ended]
  /\ UNCHANGED <<hop, stream, cmux, chan, conf, next_id, dns>>
  /\ UNCHANGED rest_vars

NextRandomness == PackageBytes

SpecRandomness == InitRandomness /\ [][NextRandomness]_vars

\* ------------------------------------------------------------------------
\* Properties of the relay path (Spec).

\* The last step gave a relay cell to circuit_receive_relay_cell() on a
\* circuit that was not yet marked for close.
Received ==
  last.op = "recv" /\ last.called /\ ~last.pre.marked_for_close

\* C1: whenever circuit_receive_relay_cell() returns a negative value, the
\* circuit has been marked for close inside the function, on every failing
\* path, the one of a recognized cell that cannot be decoded included.
C1_NegativeReturnMarksCircuit ==
  (Received /\ last.ret < 0) => circ[last.circ].marked_for_close

\* The failing input of C1: a recognized cell that cannot be decoded made
\* circuit_receive_relay_cell() return -END_CIRC_REASON_TORPROTOCOL and the
\* circuit is still open.
C1_UndecodableLeftOpen ==
  /\ Received
  /\ last.cell.crypt = "recognized" /\ ~last.cell.decode_ok
  /\ last.ret = -END_CIRC_REASON_TORPROTOCOL
  /\ ~circ[last.circ].marked_for_close

\* The last step delivered an EXTEND or EXTEND2 message for stream 0 that
\* came in a cell other than RELAY_EARLY, with AllowNonearlyExtend off.
NonearlyExtend ==
  /\ Received /\ last.delivered
  /\ last.cell.command \in {"EXTEND", "EXTEND2"}
  /\ last.cell.stream_id = 0
  /\ ~last.cell.is_relay_early
  /\ ~conf.AllowNonearlyExtend

\* C2 (as amended): with AllowNonearlyExtend off, an EXTEND or EXTEND2
\* message in a cell that was not RELAY_EARLY is dropped: circuit_extend()
\* is not called, the cell is handled with result 0 and the circuit stays
\* open.
C2_NonearlyExtendDropped ==
  NonearlyExtend =>
    /\ ~last.extended
    /\ last.ret = 0
    /\ ~circ[last.circ].marked_for_close

\* C2 as stated: with AllowNonearlyExtend off, an EXTEND or EXTEND2 message
\* in a cell that was not RELAY_EARLY gets the circuit torn down with reason
\* TORPROTOCOL.
C2_NonearlyExtendTearsDown ==
  NonearlyExtend =>
    /\ circ[last.circ].marked_for_close
    /\ circ[last.circ].marked_for_close_reason = END_CIRC_REASON_TORPROTOCOL

C2_Witness ==
  /\ NonearlyExtend
  /\ last.cell.command = "EXTEND2"
  /\ ~circ[last.circ].is_origin

\* The last step gave circuit_receive_relay_cell() a cell whose layer
\* decryption failed.
DecryptFailed == Received /\ last.cell.crypt = "fail"

\* C3 (as amended): when the layer decryption of a received relay cell
\* fails, the cell is neither recognised nor delivered nor forwarded, and
\* the circuit is marked for close with reason INTERNAL, which is also the
\* negated return value.
C3_DecryptFailureClosesInternal ==
  DecryptFailed =>
    /\ ~last.recognized /\ ~last.delivered /\ ~last.forwarded
    /\ circ[last.circ].marked_for_close
    /\ circ[last.circ].marked_for_close_reason = END_CIRC_REASON_INTERNAL
    /\ last.ret = -END_CIRC_REASON_INTERNAL

\* C3 as stated: when the layer decryption fails, the cell is neither
\* recognised nor forwarded and the circuit is marked for close with reason
\* TORPROTOCOL.
C3_DecryptFailureClosesTorprotocol ==
  DecryptFailed =>
    /\ ~last.recognized /\ ~last.forwarded
    /\ circ[last.circ].marked_for_close
    /\ circ[last.circ].marked_for_close_reason = END_CIRC_REASON_TORPROTOCOL

C3_Witness ==
  /\ DecryptFailed
  /\ ~circ[last.circ].is_origin
  /\ circ[last.circ].marked_for_close_reason = END_CIRC_REASON_INTERNAL

\* The last step delivered a DATA cell to
\* connection_edge_process_relay_cell().
DataDelivered ==
  Received /\ last.delivered /\ last.cell.command = "DATA"

\* The deliver windows at rest.
DeliverWindows ==
  {circ[c].deliver_window : c \in Circs}
    \cup {hop[h].deliver_window : h \in Hops}

\* C4 (as amended): each DATA cell received decreases the circuit-level
\* deliver_window by one, and in the same step the window grows by
\* CIRCWINDOW_INCREMENT when that brought it to CIRCWINDOW_START -
\* CIRCWINDOW_INCREMENT or below; so it stays above CIRCWINDOW_START -
\* CIRCWINDOW_INCREMENT, never goes below 0, and no number of DATA cells
\* gets the circuit torn down with TORPROTOCOL for its deliver window.
C4_DeliverWindowReplenished ==
  /\ \A dw \in DeliverWindows :
       /\ dw > CIRCWINDOW_START - CIRCWINDOW_INCREMENT
       /\ dw <= CIRCWINDOW_START
  /\ DataDelivered =>
       LET before == last.pre.deliver_window
           after == deliver_window_of(World, last.circ, last.cell.layer_hint)
       IN /\ after = IF before - 1 <= CIRCWINDOW_START - CIRCWINDOW_INCREMENT
                       THEN before - 1 + CIRCWINDOW_INCREMENT
                       ELSE before - 1
          /\ last.cell.sub = 0 => last.ret = 0
          /\ last.cell.sub = 0 =>
               circ[last.circ].marked_for_close_reason
                 # END_CIRC_REASON_TORPROTOCOL

\* The cells of circuit c handed to a channel so far.
HandedOf(c) ==
  {e \in UNION {{chan[ch].handed[i] : i \in 1 .. Len(chan[ch].handed)} :
                  ch \in Chans} : e.circ = c}

\* C4 as stated: a circuit that has received CIRCWINDOW_START + 1 DATA cells
\* while none of its SENDMEs has left for the peer has been torn down with
\* reason TORPROTOCOL for a deliver_window below 0.
C4_ExcessDataTearsDown ==
  \A c \in conf.circuits :
    (circ[c].n_data_received >= CIRCWINDOW_START + 1 /\ HandedOf(c) = {}) =>
      /\ circ[c].marked_for_close
      /\ circ[c].marked_for_close_reason = END_CIRC_REASON_TORPROTOCOL

C4_Witness ==
  /\ DataDelivered
  /\ circ[last.circ].n_data_received = CIRCWINDOW_START + 1
  /\ HandedOf(last.circ) = {}
  /\ ~circ[last.circ].marked_for_close
  /\ last.pre.deliver_window = CIRCWINDOW_START

\* The last step delivered a circuit-level SENDME.
SendmeDelivered ==
  /\ Received /\ last.delivered
  /\ last.cell.command = "SENDME" /\ last.cell.stream_id = 0

\* C7 (as amended): the i-th circuit-level SENDME that passes the version
\* check on a circuit removes the i-th tag recorded on that circuit, the
\* oldest of the list, and the tags left are the later ones in the order
\* of their recording; a version 1 SENDME is compared against the tag it
\* removes, a version 0 SENDME removes its tag without any comparison.  A
\* SENDME that finds no tag recorded removes none and closes the circuit.
C7_TagsConsumedInOrder ==
  /\ \A c \in Circs :
       LET digests == circ[c].sendme_last_digests
       IN \A i \in 1 .. Len(digests) :
            digests[i].idx = circ[c].n_digests_recorded - Len(digests) + i
  /\ (SendmeDelivered /\ last.version_ok) =>
       LET digests == circ[last.circ].sendme_last_digests
       IN /\ last.pre.n_digests > 0 =>
               /\ last.popped = circ[last.circ].n_sendme_checked
               /\ last.popped = last.pre.oldest.idx
               /\ digests # <<>> => digests[1].idx = last.popped + 1
          /\ last.pre.n_digests = 0 =>
               /\ last.popped = 0
               /\ digests = <<>>
               /\ circ[last.circ].marked_for_close
          /\ last.compared <=>
               last.pre.n_digests > 0 /\ last.cell.payload.len # 0

\* C7 as stated: every circuit-level SENDME that passes the version check
\* is compared against the tag it removes.
C7_EveryRemovedTagCompared ==
  (SendmeDelivered /\ last.version_ok /\ last.pre.n_digests > 0) =>
    last.compared

C7_Witness ==
  /\ SendmeDelivered /\ last.version_ok
  /\ last.popped = 2
  /\ circ[last.circ].n_sendme_checked = 2
  /\ last.compared

\* The last step delivered a circuit-level SENDME of version 1.
SendmeV1 ==
  /\ SendmeDelivered
  /\ last.cell.payload.len # 0 /\ last.cell.payload.parse_ok
  /\ last.cell.payload.version = 1

\* The tag of that SENDME is the oldest tag recorded on the circuit, in the
\* length the layer uses.
TagMatches ==
  LET n == circ_expects_tag_len(World, last.circ, last.cell.layer_hint)
  IN /\ last.pre.n_digests > 0
     /\ last.cell.payload.tag_len = n
     /\ TagBytes(last.cell.payload, n) = TagBytes(last.pre.oldest, n)

\* The package window the last cell's layer counts in.
PackageWindowNow ==
  circuit_get_package_window(World, last.circ, last.cell.layer_hint)

\* C8: a version 1 circuit-level SENDME whose tag differs from the oldest
\* recorded tag, or that arrives when no tag is recorded, is rejected: the
\* package window stays as it was and the circuit is marked for close with
\* reason TORPROTOCOL.  One that carries the matching tag (and whose version
\* the consensus admits) is accepted by sendme_is_valid(), and is handled
\* with result 0 when the package window has room for the increment.
C8_TagDecidesSendme ==
  SendmeV1 =>
    /\ ~TagMatches =>
         /\ ~last.valid
         /\ PackageWindowNow = last.pre.package_window
         /\ circ[last.circ].marked_for_close
         /\ circ[last.circ].marked_for_close_reason
              = END_CIRC_REASON_TORPROTOCOL
         /\ last.ret = -END_CIRC_REASON_TORPROTOCOL
    /\ (TagMatches /\ last.version_ok) => last.valid
    /\ (TagMatches /\ last.version_ok
          /\ last.pre.package_window + CIRCWINDOW_INCREMENT
               <= CIRCWINDOW_START_MAX) =>
         /\ last.ret = 0
         /\ ~circ[last.circ].marked_for_close

C8_Witness ==
  /\ SendmeV1 /\ last.version_ok
  /\ last.pre.n_digests > 0
  /\ last.cell.payload.tag_len
       = circ_expects_tag_len(World, last.circ, last.cell.layer_hint)
  /\ ~TagMatches
  /\ circ[last.circ].marked_for_close

\* The DATA cells packaged on the circuit of the last step during it.
PackagedInStep ==
  circ[last.circ].n_data_packaged - last.pre.n_data_packaged

\* The package windows at rest.
PackageWindows ==
  {circ[c].package_window : c \in Circs}
    \cup {hop[h].package_window : h \in Hops}

\* C9: the package window goes down by exactly one for each DATA cell
\* packaged and up by CIRCWINDOW_INCREMENT for each valid SENDME, and it
\* never exceeds CIRCWINDOW_START_MAX (nor goes below 0): a valid SENDME
\* that would take it above CIRCWINDOW_START_MAX leaves it unchanged and
\* gets the circuit torn down with reason TORPROTOCOL.
C9_PackageWindowArithmetic ==
  /\ \A pw \in PackageWindows : pw >= 0 /\ pw <= CIRCWINDOW_START_MAX
  /\ last.op = "package" =>
       circuit_get_package_window(World, last.circ,
                                  stream[last.stream].cpath_layer)
         = last.pre.package_window - PackagedInStep
  /\ SendmeDelivered =>
       IF ~last.valid
         THEN PackageWindowNow = last.pre.package_window
       ELSE IF last.pre.package_window + CIRCWINDOW_INCREMENT
                 > CIRCWINDOW_START_MAX
         THEN /\ PackageWindowNow = last.pre.package_window
              /\ circ[last.circ].marked_for_close
              /\ circ[last.circ].marked_for_close_reason
                   = END_CIRC_REASON_TORPROTOCOL
         ELSE PackageWindowNow = last.pre.package_window
                                   + CIRCWINDOW_INCREMENT - PackagedInStep

C9_Witness ==
  /\ SendmeDelivered /\ last.valid
  /\ last.pre.package_window + CIRCWINDOW_INCREMENT > CIRCWINDOW_START_MAX
  /\ circ[last.circ].marked_for_close

\* A valid SENDME that raises the window, after which data is packaged.
C9_WitnessRaised ==
  /\ SendmeDelivered /\ last.valid
  /\ PackageWindowNow = last.pre.package_window + CIRCWINDOW_INCREMENT - 1
  /\ PackagedInStep = 1

\* ------------------------------------------------------------------------
\* Properties of the cell queues (SpecQueue).

Appended == last.op = "append"

\* The queue the last append was for.
AppendQueue == circ[last.circ][QueueOf(last.direction)]

HandedIds(c, ch) ==
  LET OfCirc(e) == e.circ = c
      sub == SelectSeq(chan[ch].handed, OfCirc)
  IN [i \in 1 .. Len(sub) |-> sub[i].id]

\* The ids of the cells waiting in the queue of circuit c for channel ch.
QueuedIds(c, ch) ==
  LET queue == circ[c][QueueOf(DirOn(World, c, ch))]
  IN [i \in 1 .. Len(queue) |-> queue[i].id]

Increasing(ids) ==
  \A i, j \in 1 .. Len(ids) : i < j => ids[i] < ids[j]

\* C6: the cells of one circuit and direction are handed to
\* channel_write_packed_cell() in the order in which they were appended to
\* the circuit's queue (AppendCell numbers them in that order), whatever
\* circuits the cmux picks in between; the cells still queued follow those
\* handed over, in order.
C6_HandedInEnqueueOrder ==
  \A c \in Circs, ch \in Chans :
    ch \in {circ[c].n_chan, circ[c].p_chan} =>
      Increasing(HandedIds(c, ch) \o QueuedIds(c, ch))

C6_Witness ==
  /\ Len(HandedIds("c1", "N")) = 2
  /\ Len(chan["N"].handed) = 3
  /\ chan["N"].handed[2].circ = "c2"
  /\ \A i \in 1 .. 3 : chan["N"].handed[i].ok

\* ------------------------------------------------------------------------
\* Properties of the blocking of streams (SpecBlock).

\* The streams that feed the queue of circuit c in a direction.
Feeding(c, direction) ==
  IF direction = "OUT" THEN p_streams(World, c) ELSE n_streams(World, c)

\* The streams set_block_state_for_streams() leaves alone.
Exempt(s) ==
  ~stream[s].read_event \/ stream[s].xoff_received
    \/ stream[s].marked_for_close

\* The last step appended a cell that brought a queue that was not blocked
\* to the high watermark.
ReachedHighWatermark ==
  /\ Appended /\ last.ret = 1
  /\ ~last.pre.blocked
  /\ Len(AppendQueue) >= cell_queue_highwatermark

\* C10 (as amended): when an append brings a queue that was not blocked to
\* the high watermark, the circuit's blocked flag for that channel is set;
\* every stream feeding the queue then stops reading, except those without
\* read event, with XOFF received or marked for close, which stay as they
\* were -- unless the circuit belongs to a conflux set that can still send:
\* then no stream is stopped.
C10_HighWatermarkBlocks ==
  ReachedHighWatermark =>
    /\ circ[last.circ][BlockedOf(last.direction)]
    /\ \A s \in Streams :
         IF /\ s \in Feeding(last.circ, last.direction)
            /\ ~Exempt(s)
            /\ circ[last.circ].conflux # "can_send"
           THEN ~stream[s].reading
           ELSE stream[s].reading <=> s \in last.pre.reading

\* C10 as stated: when an append brings a queue that was not blocked to the
\* high watermark, every stream feeding the queue that has a read event,
\* has not received XOFF and is not marked for close stops reading.
C10_EveryFeedingStreamStops ==
  ReachedHighWatermark =>
    \A s \in Feeding(last.circ, last.direction) :
      ~Exempt(s) => ~stream[s].reading

C10_Witness ==
  /\ ReachedHighWatermark
  /\ circ[last.circ].conflux = "cannot_send"
  /\ \E s, t \in Feeding(last.circ, last.direction) :
       /\ s \in last.pre.reading /\ ~stream[s].reading
       /\ stream[t].xoff_received /\ stream[t].reading

\* ------------------------------------------------------------------------
\* Unblocking (SpecBlock).

\* The cells of circuit c among those the last flush took from the queues
\* and handed to its channel, in order.
FlushedOf(c) ==
  LET handed == chan[last.chan].handed
  IN SelectSeq(SubSeq(handed, last.pre.handed + 1, Len(handed)),
               LAMBDA h : h.circ = c)

\* The last step was a flush in which the last cell taken from the queue of
\* circuit c, blocked when the flush began, was written to the channel and
\* left the queue at or below the low watermark.
FlushedToLowWatermark(c) ==
  /\ last.op = "flush"
  /\ c \in last.pre.blocked
  /\ FlushedOf(c) # <<>>
  /\ FlushedOf(c)[Len(FlushedOf(c))].ok
  /\ Len(circ[c][QueueOf(DirOn(World, c, last.chan))])
       <= cell_queue_lowwatermark

\* C11 (as amended): when channel_flush_from_first_active_circuit() writes a
\* cell of a blocked circuit and the queue is then at or below the low
\* watermark, the blocked flag is cleared, and the streams feeding the queue
\* that have a read event, no XOFF and no mark read again -- unless the
\* circuit belongs to a conflux set that cannot send.
C11_FlushUnblocksAtLowWatermark ==
  \A c \in Circs :
    FlushedToLowWatermark(c) =>
      LET direction == DirOn(World, c, last.chan)
      IN /\ ~circ[c][BlockedOf(direction)]
         /\ \A s \in Feeding(c, direction) :
              (~Exempt(s) /\ circ[c].conflux \in {NULL, "can_send"})
                => stream[s].reading

\* C11 as stated: a circuit that is not closed never stays blocked with a
\* queue at or below the low watermark, however the queue shrank.
C11_NeverBlockedAtLowWatermark ==
  \A c \in conf.circuits, direction \in {"OUT", "IN"} :
    (~circ[c].marked_for_close /\ circ[c][BlockedOf(direction)])
      => Len(circ[c][QueueOf(direction)]) > cell_queue_lowwatermark

\* circuit_clear_cell_queue() emptied the queue of a blocked circuit and the
\* circuit is still blocked.
C11_ClearedStillBlocked ==
  /\ last.op = "clear"
  /\ ~circ[last.circ].marked_for_close
  /\ circ[last.circ][BlockedOf(DirOn(World, last.circ, last.chan))]
  /\ circ[last.circ][QueueOf(DirOn(World, last.circ, last.chan))] = <<>>

C11_Witness ==
  \E c \in Circs :
    /\ FlushedToLowWatermark(c)
    /\ circ[c].conflux = NULL
    /\ \E s, t \in Feeding(c, DirOn(World, c, last.chan)) :
         /\ ~Exempt(s) /\ stream[s].reading
         /\ stream[t].xoff_received

\* ------------------------------------------------------------------------
\* Circuits marked for close (SpecMarked).

\* A step taken while circuit c is marked for close: the mark stays, neither
\* queue changes, and a relay cell or an append for the circuit in this step
\* returned 0 with the cell neither recognized, delivered nor forwarded.
MarkedStep(c) ==
  circ[c].marked_for_close =>
    /\ circ'[c].marked_for_close
    /\ circ'[c].n_chan_cells = circ[c].n_chan_cells
    /\ circ'[c].p_chan_cells = circ[c].p_chan_cells
    /\ (last' # last /\ last'.op = "recv" /\ last'.circ = c) =>
         /\ last'.ret = 0
         /\ ~last'.recognized /\ ~last'.delivered /\ ~last'.forwarded
    /\ (last' # last /\ last'.op = "append" /\ last'.circ = c) =>
         last'.ret = 0

\* C12: marked_for_close is monotonic, and once it is set no cell is queued
\* on either queue of the circuit: circuit_receive_relay_cell() returns 0
\* without recognizing, delivering or forwarding the cell, and
\* append_cell_to_circuit_queue() returns 0 and leaves the queue as it is.
C12_MarkedCircuitTakesNoCells == [][\A c \in Circs : MarkedStep(c)]_vars

\* A cell that would have been passed on arrived for a circuit that was
\* already marked for close with a cell on a queue.
C12_Witness ==
  /\ last.op = "recv" /\ last.called
  /\ last.pre.marked_for_close
  /\ last.cell.crypt = "unrecognized"
  /\ last.ret = 0
  /\ circ[last.circ].n_chan_cells # <<>>

\* ------------------------------------------------------------------------
\* The DNS resolver (SpecDns).

\* The resolve that a request for address a finds pending in this state.
PendingFor(a) ==
  IF /\ dns.cache_map[a] # 0
     /\ dns.resolves[dns.cache_map[a]].state = "PENDING"
     /\ dns.resolves[dns.cache_map[a]].expire > dns.now
    THEN dns.cache_map[a]
    ELSE 0

\* The step is a call of dns_resolve() for hostname a that gets to the
\* lookup in the map.
ResolveStep(a) ==
  last'.op = "dns_resolve" /\ last'.address = a /\ last'.fault # "reject_star"

\* A request for a name that has a pending resolve joins it: dns_resolve()
\* returns 0, no request goes to the resolver library, and the connection
\* is the new head of the pending connections of that resolve and is linked
\* in resolving_streams.
CoalescedStep(a) ==
  (ResolveStep(a) /\ PendingFor(a) # 0) =>
    /\ last'.ret = 0
    /\ dns'.queries = dns.queries
    /\ dns'.cache_map[a] = PendingFor(a)
    /\ dns'.resolves[PendingFor(a)].pending_connections =
         <<last'.conn>> \o dns.resolves[PendingFor(a)].pending_connections
    /\ dns'.conn[last'.conn].state = "RESOLVING"
    /\ dns'.conn[last'.conn].linked = "resolving_streams"

\* A request for a name that is not in the map, or whose resolve is due,
\* launches one A request and, with IPv6Exit, one AAAA request.
LaunchedStep(a) ==
  (/\ ResolveStep(a) /\ last'.fault = "ok"
   /\ \/ dns.cache_map[a] = 0
      \/ dns.resolves[dns.cache_map[a]].expire <= dns.now) =>
    /\ last'.ret = 0
    /\ dns'.queries =
         [dns.queries EXCEPT ![<<a, "A">>] = @ + 1,
                             ![<<a, "AAAA">>] =
                               IF dns.opt.IPv6Exit THEN @ + 1 ELSE @]

\* The step is the call of evdns_callback() that brings the last answer for
\* the pending resolve of hostname a.
CompletedStep(a) ==
  /\ last'.op = "evdns_callback" /\ last'.address = a
  /\ dns.cache_map[a] # 0
  /\ dns.resolves[dns.cache_map[a]].state = "PENDING"
  /\ dns'.resolves[dns.cache_map[a]].state = "DONE"

\* The connections that wait for the resolve of hostname a and are not
\* marked for close.
Waiting(a) ==
  {e \in ConnSet :
     /\ \E k \in DOMAIN dns.resolves[dns.cache_map[a]].pending_connections :
          dns.resolves[dns.cache_map[a]].pending_connections[k] = e
     /\ ~dns.conn[e].marked_for_close}

\* No family of the completed resolve of hostname a has an address.
NoAddress(a) ==
  /\ dns'.resolves[dns.cache_map[a]].res_status_ipv4 # "DONE_OK"
  /\ dns'.resolves[dns.cache_map[a]].res_status_ipv6 # "DONE_OK"

EndResolveFailed == <<EdgeCell("END", "RESOLVEFAILED")>>

\* When the last answer is in, every waiting connection that is not marked
\* for close is woken in that call: a BEGIN connection is either connecting
\* on n_streams or freed after END(RESOLVEFAILED), a RESOLVE connection is
\* freed after one RESOLVED cell; when no address was found the BEGIN
\* connections get END(RESOLVEFAILED) and the RESOLVE connections a RESOLVED
\* cell that carries the error.
WokenStep(a) ==
  CompletedStep(a) =>
    /\ dns'.resolves[dns.cache_map[a]].pending_connections = <<>>
    /\ \A e \in Waiting(a) :
         IF dns.conn[e].purpose = "CONNECT"
           THEN \/ /\ ~NoAddress(a)
                   /\ dns'.conn[e].state = "CONNECTING"
                   /\ dns'.conn[e].linked = "n_streams"
                   /\ dns'.conn[e].addr \in IPs
                   /\ dns'.sent[e] = <<>>
                \/ /\ dns'.conn[e].freed /\ dns'.conn[e].linked = "none"
                   /\ dns'.sent[e] = EndResolveFailed
           ELSE /\ dns'.conn[e].freed /\ dns'.conn[e].linked = "none"
                /\ Len(dns'.sent[e]) = 1
                /\ dns'.sent[e][1].command = "RESOLVED"
                /\ NoAddress(a) <=>
                     dns'.sent[e][1].arg \in {"ERROR", "ERROR_TRANSIENT"}

\* C13: two requests for one name that is not cached cause one set of
\* requests to the resolver library (an A request and, with IPv6Exit, an
\* AAAA request): the second finds the pending resolve, joins its pending
\* connections and returns 0 without launching anything; the last answer
\* wakes every waiting connection that is not marked for close, and when no
\* address was found a BEGIN connection receives END(RESOLVEFAILED) and a
\* RESOLVE connection a RESOLVED cell with the error.
C13_PendingResolveShared ==
  [][\A a \in Hostnames :
       CoalescedStep(a) /\ LaunchedStep(a) /\ WokenStep(a)]_vars

\* C13 as stated: when the answer is that the name does not exist, every
\* waiting connection that is not marked for close receives
\* END(RESOLVEFAILED).
C13_EveryRequesterGetsEnd ==
  [][\A a \in Hostnames :
       (CompletedStep(a) /\ NoAddress(a)) =>
         \A e \in Waiting(a) : dns'.sent[e] = EndResolveFailed]_vars

\* The last answer for a name was that it does not exist, and it woke two
\* connections that shared the resolve: the one of a RESOLVE cell with a
\* RESOLVED cell, the one of a BEGIN cell with END(RESOLVEFAILED).
C13_Witness ==
  /\ last.op = "evdns_callback" /\ last.result = "NOTEXIST"
  /\ \E e, f \in ConnSet :
       /\ dns.sent[e] = <<EdgeCell("RESOLVED", "ERROR")>>
       /\ dns.sent[f] = EndResolveFailed
       /\ dns.conn[e].freed /\ dns.conn[f].freed

\* The connections on the list of pending connections of resolve i.
PendingOn(d, i) ==
  {d.resolves[i].pending_connections[k] :
     k \in DOMAIN d.resolves[i].pending_connections}

\* A call of dns_resolve() that returns 0 for a name without a pending
\* resolve has put a new one in the map: pending, with the connection as its
\* only pending connection, due RESOLVE_MAX_TIMEOUT after the call.
InsertedStep(a) ==
  (ResolveStep(a) /\ PendingFor(a) = 0 /\ last'.ret = 0) =>
    /\ dns'.cache_map[a] # 0
    /\ dns'.resolves[dns'.cache_map[a]].state = "PENDING"
    /\ dns'.resolves[dns'.cache_map[a]].queued
    /\ dns'.resolves[dns'.cache_map[a]].expire = dns.now + RESOLVE_MAX_TIMEOUT
    /\ dns'.resolves[dns'.cache_map[a]].pending_connections = <<last'.conn>>

\* The step is a call of dns_resolve() that purges the expired resolves, and
\* resolve i is pending and due.
PurgingStep(i) ==
  /\ last'.op = "dns_resolve" /\ last'.fault # "reject_star"
  /\ last'.address # IpLiteral
  /\ dns.resolves[i].state = "PENDING"
  /\ dns.resolves[i].expire <= dns.now

EndTimeout == <<EdgeCell("END", "TIMEOUT")>>

\* The connection is off its circuit and freed after END(TIMEOUT).
TimedOut(e) ==
  /\ dns'.sent[e] = EndTimeout
  /\ dns'.conn[e].freed
  /\ dns'.conn[e].linked = "none"

\* The purge of a pending resolve that is due: the resolve leaves the map,
\* its pending connections are on no list of pending connections any more;
\* those not marked for close got END(TIMEOUT), left their circuit and are
\* freed, those marked for close are in state RESOLVEFAILED, still on
\* resolving_streams and not freed, and got no cell.
PurgedStep(i) ==
  PurgingStep(i) =>
    /\ \/ dns'.cache_map[dns.resolves[i].address] = 0
       \/ dns'.resolves[dns'.cache_map[dns.resolves[i].address]].expire
            > dns.now
    /\ \A e \in PendingOn(dns, i) :
         /\ \A j \in ResolveIds : e \notin PendingOn(dns', j)
         /\ IF dns.conn[e].marked_for_close
              THEN /\ dns'.conn[e] =
                        [dns.conn[e] EXCEPT !.state = "RESOLVEFAILED"]
                   /\ dns'.sent[e] = <<>>
              ELSE TimedOut(e)

\* C14: a pending resolve is due RESOLVE_MAX_TIMEOUT after it was inserted;
\* when the purge removes it while it is pending, the resolve leaves the
\* map and every connection waiting on it that is not marked for close
\* receives END(TIMEOUT), is detached from its circuit and freed, while one
\* that is marked for close is only put in state RESOLVEFAILED.
C14_PendingResolveTimesOut ==
  [][/\ \A a \in Hostnames : InsertedStep(a)
     /\ \A i \in ResolveIds : PurgedStep(i)]_vars

\* C14 as stated: every connection on the pending list of the purged
\* resolve receives END(TIMEOUT), is detached and freed.
C14_EveryWaiterTimedOut ==
  [][\A i \in ResolveIds :
       PurgingStep(i) => \A e \in PendingOn(dns, i) : TimedOut(e)]_vars

\* A call of dns_resolve() at the time a pending resolve was due has ended
\* the connection that waited on it with END(TIMEOUT) and freed it, and the
\* connection of the call waits on a new resolve.
C14_Witness ==
  /\ last.op = "dns_resolve" /\ last.ret = 0
  /\ dns.now >= RESOLVE_MAX_TIMEOUT
  /\ \E e \in ConnSet \ {last.conn} :
       /\ dns.sent[e] = EndTimeout
       /\ dns.conn[e].freed /\ dns.conn[e].linked = "none"
  /\ dns.resolves[dns.cache_map[last.address]].pending_connections =
       <<last.conn>>
  /\ dns.resolves[dns.cache_map[last.address]].expire =
       dns.now + RESOLVE_MAX_TIMEOUT

\* The places where connection e is on the list of pending connections of
\* a pending resolve.
PendingRefs(e) ==
  {<<i, k>> \in ResolveIds \X (1 .. Len(Conns) + 1) :
     /\ dns.resolves[i].state = "PENDING"
     /\ k \in DOMAIN dns.resolves[i].pending_connections
     /\ dns.resolves[i].pending_connections[k] = e}

\* C15: between the calls, a connection that is linked in resolving_streams
\* is on the list of pending connections of at most one pending resolve,
\* and at most once.
C15_AtMostOnePendingResolve ==
  \A e \in ConnSet :
    dns.conn[e].linked = "resolving_streams" =>
      Cardinality(PendingRefs(e)) <= 1

\* Two connections are linked in resolving_streams and wait for different
\* names after a callback of the resolver library: each is the one pending
\* connection of the pending resolve of its name.
C15_Witness ==
  /\ last.op = "evdns_callback"
  /\ \A e \in ConnSet :
       /\ dns.conn[e].linked = "resolving_streams"
       /\ PendingRefs(e) = {<<dns.cache_map[dns.conn[e].address], 1>>}
  /\ \E e, f \in ConnSet : dns.conn[e].address # dns.conn[f].address

\* ------------------------------------------------------------------------
\* Wildcard detection (SpecWildcard).

\* The step is a call of evdns_wildcard_check_callback().
WildcardStep == last'.op = "wildcard_check"

\* The addresses of the answer that the step brings.
Answered ==
  IF last'.result = "NONE"
    THEN {last'.addresses[k] : k \in DOMAIN last'.addresses}
    ELSE {}

\* Every answer to a test request is counted, every address in it is
\* counted once, and an address joins the wildcard list exactly when it is
\* in the answer, has then been in more than WILDCARD_ANSWERS answers, and
\* more than WILDCARD_REQUESTS test requests have been answered.
CountedStep ==
  WildcardStep =>
    /\ dns'.n_wildcard_requests = dns.n_wildcard_requests + 1
    /\ \A id \in IPs :
         /\ dns'.dns_wildcard_response_count[id] =
              dns.dns_wildcard_response_count[id]
                + (IF id \in Answered THEN 1 ELSE 0)
         /\ id \in dns'.dns_wildcard_list <=>
              \/ id \in dns.dns_wildcard_list
              \/ /\ id \in Answered
                 /\ dns'.dns_wildcard_response_count[id] > WILDCARD_ANSWERS
                 /\ dns'.n_wildcard_requests > WILDCARD_REQUESTS

\* The step is a call of evdns_callback() with an address for a request of
\* the pending resolve of name x that is in flight.
AddressStep(status) ==
  /\ last'.op = "evdns_callback"
  /\ last'.result = "NONE" /\ last'.count > 0
  /\ dns.cache_map["x"] # 0
  /\ dns.resolves[dns.cache_map["x"]].state = "PENDING"
  /\ dns.resolves[dns.cache_map["x"]][status] = "INFLIGHT"
  /\ last'.type = IF status = "res_status_ipv4" THEN "A" ELSE "AAAA"

ResultOf(status) ==
  IF status = "res_status_ipv4" THEN "result_ipv4" ELSE "result_ipv6"

\* An A or AAAA answer that is an address of the wildcard list is recorded
\* as the error NOTEXIST, any other address as the answer.
ConvertedStep(status) ==
  AddressStep(status) =>
    IF last'.ip \in dns.dns_wildcard_list
      THEN /\ dns'.resolves[dns.cache_map["x"]][status] = "DONE_ERR"
           /\ dns'.resolves[dns.cache_map["x"]][ResultOf(status)] = "NOTEXIST"
      ELSE /\ dns'.resolves[dns.cache_map["x"]][status] = "DONE_OK"
           /\ dns'.resolves[dns.cache_map["x"]][ResultOf(status)] = last'.ip

\* C20: an address is put on the wildcard list by the answer to a test
\* request that contains it when it has then been in more than
\* WILDCARD_ANSWERS answers and more than WILDCARD_REQUESTS test requests
\* have been answered; from then on an A or AAAA answer equal to a listed
\* address is recorded as NOTEXIST.
C20_WildcardListed ==
  [][/\ CountedStep
     /\ \A status \in {"res_status_ipv4", "res_status_ipv6"} :
          ConvertedStep(status)]_vars

\* C20 as stated: an address that was the answer to more than
\* WILDCARD_ANSWERS test requests out of at least WILDCARD_REQUESTS is on
\* the wildcard list.
C20_ListedFromTenRequests ==
  \A id \in IPs :
    (/\ dns.dns_wildcard_response_count[id] > WILDCARD_ANSWERS
     /\ dns.n_wildcard_requests >= WILDCARD_REQUESTS)
      => id \in dns.dns_wildcard_list

\* The first WILDCARD_REQUESTS + 1 test requests were all answered with one
\* address, which is on the list, and an A answer with that address has
\* failed the request of a client.
C20_Witness ==
  /\ last.op = "evdns_callback" /\ last.result = "NONE" /\ last.count > 0
  /\ last.ip \in dns.dns_wildcard_list
  /\ dns.n_wildcard_requests = WILDCARD_REQUESTS + 1
  /\ dns.dns_wildcard_response_count[last.ip] = WILDCARD_REQUESTS + 1
  /\ \E e \in ConnSet :
       dns.sent[e] \in {EndResolveFailed, <<EdgeCell("RESOLVED", "ERROR")>>}

\* ------------------------------------------------------------------------
\* Circuit creation and destruction (SpecCommand).

\* The step handles a CREATE cell.
CreateStep == last'.op = "create"

\* The high bit of the circuit id of that cell, for the width of the ids
\* on its channel.
HighId ==
  last'.circ_id >= HighBit(IF chan[last'.chan].wide_circ_ids
                             THEN WideCircIdBits ELSE NarrowCircIdBits)

\* The id is on the side of the id space that we use on the channel.
WrongSide ==
  \/ HighId /\ chan[last'.chan].circ_id_type = "HIGHER"
  \/ ~HighId /\ chan[last'.chan].circ_id_type = "LOWER"

\* C16: a CREATE cell whose circuit id is 0, or whose high bit is on the
\* side of the id space that we use on the channel, makes no circuit and
\* registers none; when the id is 0 no cell is sent either.
C16_BadCircIdMakesNoCircuit ==
  [][(CreateStep /\ (last'.circ_id = 0 \/ WrongSide)) =>
       /\ circ' = circ
       /\ last'.circ_id = 0 => \A ch \in Chans : chan'[ch].handed = <<>>]_vars

\* A CREATE cell with bit 31 set arrived on a channel with wide circuit ids
\* on which we use the high ids: it was answered with a DESTROY cell and
\* the relay has the circuits it had.
C16_Witness ==
  /\ last = [op |-> "create", chan |-> "P",
             circ_id |-> HighBit(WideCircIdBits)]
  /\ chan["P"].wide_circ_ids
  /\ chan["P"].circ_id_type = "HIGHER"
  /\ chan["P"].handed =
       <<[command |-> "DESTROY", circ_id |-> HighBit(WideCircIdBits),
          reason |-> END_CIRC_REASON_TORPROTOCOL]>>
  /\ Allocated(World) = {"c1", "c2"}

\* The step handles a DESTROY cell for a circuit that was found.
DestroyStep == last'.op = "destroy" /\ last'.circ # NULL

\* The step frees a circuit that is marked for close.
CloseStep == last'.op = "close"

\* C17: a DESTROY cell for a circuit clears the channel and the circuit id
\* of the side it arrived on and leaves the circuit marked for close, and
\* when the circuit is closed no cell goes to a channel that a DESTROY cell
\* for it came from.
C17_DestroySideClearedFirst ==
  [][/\ DestroyStep =>
          LET c == last'.circ
              ch == last'.chan
              id == last'.circ_id
          IN /\ (circ[c].p_chan = ch /\ circ[c].p_circ_id = id) =>
                  /\ circ'[c].p_chan = NULL /\ circ'[c].p_circ_id = 0
                  /\ circ'[c].n_chan = circ[c].n_chan
             /\ (circ[c].n_chan = ch /\ circ[c].n_circ_id = id) =>
                  /\ circ'[c].n_chan = NULL /\ circ'[c].n_circ_id = 0
                  /\ circ'[c].p_chan = circ[c].p_chan
             /\ circ'[c].received_destroy
             /\ circ'[c].marked_for_close
     /\ CloseStep =>
          \A ch \in circ[last'.circ].destroy_from : chan'[ch].handed = <<>>]_vars

\* The relay circuit c1 got a DESTROY cell from P and has been closed: one
\* DESTROY cell went to N and none to P.
C17_Witness ==
  /\ last = [op |-> "close", circ |-> "c1"]
  /\ chan["P"].handed = <<>>
  /\ chan["N"].handed =
       <<[command |-> "DESTROY", circ_id |-> 1,
          reason |-> END_CIRC_REASON_DESTROYED]>>

\* C18: a relay circuit that a DESTROY cell closes is marked for close
\* with the reason DESTROYED, the state after the cell is the same for
\* every reason byte, the reason of a marked circuit stays, and the DESTROY
\* cells that the closing circuit sends carry it.
C18_RemoteReasonNotPropagated ==
  [][/\ (DestroyStep /\ ~circ[last'.circ].is_origin) =>
          LET c == last'.circ
              handled(reason) ==
                command_process_destroy_cell(
                  Cmd, last'.chan,
                  [circ_id |-> last'.circ_id, reason |-> reason], c)
          IN /\ ~circ[c].marked_for_close =>
                  circ'[c].marked_for_close_reason = END_CIRC_REASON_DESTROYED
             /\ \A reason \in DestroyReasons \cup {0, 255} :
                  handled(reason) = handled(last'.reason)
     /\ \A c \in CmdCircs :
          (circ[c].marked_for_close /\ circ'[c].state # "FREE") =>
             circ'[c].marked_for_close_reason = circ[c].marked_for_close_reason
     /\ (CloseStep /\ ~circ[last'.circ].is_origin) =>
          \A ch \in Chans :
            \A i \in 1 .. Len(chan'[ch].handed) :
              chan'[ch].handed[i].reason =
                circ[last'.circ].marked_for_close_reason]_vars

\* A DESTROY cell with the reason TORPROTOCOL came from N for the relay
\* circuit c1, which is marked for close with the reason DESTROYED and
\* still has its channel P.
C18_Witness ==
  /\ last = [op |-> "destroy", chan |-> "N", circ_id |-> 1,
             reason |-> END_CIRC_REASON_TORPROTOCOL, circ |-> "c1"]
  /\ circ["c1"].marked_for_close
  /\ circ["c1"].marked_for_close_reason = END_CIRC_REASON_DESTROYED
  /\ circ["c1"].n_chan = NULL
  /\ circ["c1"].p_chan = "P"

\* ------------------------------------------------------------------------
\* RELAY_EARLY cells of an origin circuit (SpecEarly).

\* The number of RELAY_EARLY cells in a cell queue.
EarlyCells(queue) ==
  Cardinality({i \in 1 .. Len(queue) : queue[i].command = "RELAY_EARLY"})

\* The step sent a relay message on an origin circuit.
SendStep == last'.op = "send" /\ circ[last'.circ].is_origin

\* The step put a cell at the end of the queue for n_chan of circuit c.
Queued(c) ==
  /\ Len(circ'[c].n_chan_cells) = Len(circ[c].n_chan_cells) + 1
  /\ SubSeq(circ'[c].n_chan_cells, 1, Len(circ[c].n_chan_cells))
       = circ[c].n_chan_cells

QueuedCell(c) == circ'[c].n_chan_cells[Len(circ'[c].n_chan_cells)]

\* C19: on an origin circuit remaining_relay_early_cells never grows and
\* never goes below 0, a step puts no more RELAY_EARLY cells into the queue
\* than it takes from the counter (so no more than
\* MAX_RELAY_EARLY_CELLS_PER_CIRCUIT are ever sent), a cell queued as
\* RELAY_EARLY takes exactly one, and an EXTEND or EXTEND2 that is queued
\* goes out as RELAY_EARLY when the counter is above 0 and as RELAY when it
\* is 0.
C19_RelayEarlyBudget ==
  [][/\ \A c \in Circs :
          circ[c].is_origin =>
            /\ circ'[c].remaining_relay_early_cells >= 0
            /\ circ'[c].remaining_relay_early_cells
                 <= circ[c].remaining_relay_early_cells
            /\ EarlyCells(circ'[c].n_chan_cells)
                 - EarlyCells(circ[c].n_chan_cells)
                 <= circ[c].remaining_relay_early_cells
                      - circ'[c].remaining_relay_early_cells
            /\ circ[c].remaining_relay_early_cells
                 <= MAX_RELAY_EARLY_CELLS_PER_CIRCUIT
     /\ (SendStep /\ Queued(last'.circ)) =>
          LET c == last'.circ
              remaining == circ[c].remaining_relay_early_cells
          IN /\ QueuedCell(c).command = "RELAY_EARLY" =>
                  circ'[c].remaining_relay_early_cells = remaining - 1
             /\ QueuedCell(c).command = "RELAY" =>
                  circ'[c].remaining_relay_early_cells = remaining
             /\ last'.relay_command \in {"EXTEND", "EXTEND2"} =>
                  QueuedCell(c).command =
                    IF remaining > 0 THEN "RELAY_EARLY" ELSE "RELAY"]_vars

\* The origin circuit c2 has used its RELAY_EARLY cells, the last of them
\* for an EXTEND2 that is still in its queue, and the EXTEND2 sent after it
\* is queued as a RELAY cell.
C19_Witness ==
  /\ last.op = "send" /\ last.circ = "c2" /\ last.relay_command = "EXTEND2"
  /\ last.ret = 0
  /\ circ["c2"].remaining_relay_early_cells = 0
  /\ Len(circ["c2"].n_chan_cells) >= 2
  /\ LET queue == circ["c2"].n_chan_cells
     IN /\ queue[Len(queue)].command = "RELAY"
        /\ queue[Len(queue) - 1].command = "RELAY_EARLY"

\* The circuit id of the CREATE cell of the step fails the checks of the
\* handler: it is zero, in use on the channel, or on our side of the id
\* space.
FailsCircIdChecks ==
  \/ last'.circ_id = 0
  \/ CircuitTable(World, last'.chan, last'.circ_id) # {}
  \/ WrongSide

\* C27: the DoS mitigation subsystem is told of every CREATE cell that
\* arrives on a channel, before the circuit id is looked at: also of the
\* cells whose circuit id is zero, in use, or on the wrong side, and of no
\* cell on another channel.
C27_DosInformedOfEveryCreate ==
  [][CreateStep =>
       \A ch \in Chans : chan'[ch].dos_cc_informed = (ch = last'.chan)]_vars

\* C27 as stated: the DoS mitigation subsystem is not told of a CREATE
\* cell whose circuit id fails the checks.
C27_InvalidCreateNotCounted ==
  [][(CreateStep /\ FailsCircIdChecks) =>
       ~chan'[last'.chan].dos_cc_informed]_vars

\* A CREATE cell with circuit id 0 arrived on P: nothing was sent, no
\* circuit was made, and the DoS mitigation subsystem was told of it.
C27_Witness ==
  /\ last = [op |-> "create", chan |-> "P", circ_id |-> 0]
  /\ chan["P"].dos_cc_informed
  /\ chan["P"].handed = <<>>
  /\ circ["c3"].state = "FREE"

\* ------------------------------------------------------------------------
\* Answers of the resolver library (SpecDns).

\* The step is a call of evdns_callback() with an answer that reaches
\* dns_found_answer() while resolve i is the pending resolve of its name.
AnswerStep(i) ==
  /\ last'.op = "evdns_callback"
  /\ last'.result # "SHUTDOWN"
  /\ dns.cache_map[last'.address] = i
  /\ i # 0
  /\ dns.resolves[i].state = "PENDING"

\* The status of the request of resolve r that an answer of the type is
\* for, and of its other request.
StatusOf(r, type) ==
  IF type = "A" THEN r.res_status_ipv4 ELSE r.res_status_ipv6

OtherStatusOf(r, type) ==
  IF type = "A" THEN r.res_status_ipv6 ELSE r.res_status_ipv4

\* The step wakes the connections that wait for resolve i: the resolve is
\* done and has no pending connections.
WakesPending(i) ==
  /\ dns'.resolves[i].state = "DONE"
  /\ dns'.resolves[i].pending_connections = <<>>

\* The step leaves the connections and what waits for resolve i alone.
NobodyWoken(i) ==
  /\ dns'.conn = dns.conn
  /\ \A e \in ConnSet : dns'.sent[e] = <<>>
  /\ dns'.cache_map = dns.cache_map
  /\ dns'.resolves[i].state = "PENDING"
  /\ dns'.resolves[i].pending_connections = dns.resolves[i].pending_connections

AaaaAnswerStep == last'.op = "evdns_callback" /\ last'.type = "AAAA"

\* The number of AAAA requests that have timed out once the answer of the
\* step is counted.
TimeoutsWith == dns.n_ipv6_timeouts + IF last'.result = "TIMEOUT" THEN 1 ELSE 0

\* The step is a call of dns_resolve() that makes a new resolve for a
\* hostname and hands its requests to the resolver library.
NewResolveStep ==
  /\ last'.op = "dns_resolve" /\ last'.fault = "ok"
  /\ last'.address \in Hostnames
  /\ \/ dns.cache_map[last'.address] = 0
     \/ dns.resolves[dns.cache_map[last'.address]].expire <= dns.now

\* C29: IPv6 is marked broken by the answer to an AAAA request after which
\* more than IPV6_TIMEOUTS AAAA requests, and more than half of those made,
\* have timed out, and by nothing else; the mark stays; and every new
\* resolve launches an AAAA request, whether IPv6 is marked broken or not.
C29_Ipv6MarkedBroken ==
  [][/\ AaaaAnswerStep =>
          /\ dns'.n_ipv6_timeouts = TimeoutsWith
          /\ dns'.n_ipv6_requests_made = dns.n_ipv6_requests_made
          /\ dns'.dns_is_broken_for_ipv6 =
               \/ dns.dns_is_broken_for_ipv6
               \/ /\ TimeoutsWith > IPV6_TIMEOUTS
                  /\ 2 * TimeoutsWith > dns.n_ipv6_requests_made
     /\ ~AaaaAnswerStep =>
          /\ dns'.n_ipv6_timeouts = dns.n_ipv6_timeouts
          /\ dns'.dns_is_broken_for_ipv6 = dns.dns_is_broken_for_ipv6
     /\ NewResolveStep =>
          /\ dns'.n_ipv6_requests_made = dns.n_ipv6_requests_made + 1
          /\ dns'.queries[<<last'.address, "AAAA">>] =
               dns.queries[<<last'.address, "AAAA">>] + 1]_vars

\* C29 as stated: IPv6 is marked broken when more than half of at least
\* IPV6_TIMEOUTS AAAA requests have timed out, and once it is marked broken
\* no AAAA request is launched.
C29_BrokenStopsAaaa ==
  [][/\ (/\ dns'.n_ipv6_requests_made >= IPV6_TIMEOUTS
         /\ 2 * dns'.n_ipv6_timeouts > dns'.n_ipv6_requests_made) =>
          dns'.dns_is_broken_for_ipv6
     /\ dns.dns_is_broken_for_ipv6 =>
          \A a \in Hostnames :
            dns'.queries[<<a, "AAAA">>] <= dns.queries[<<a, "AAAA">>]]_vars

\* IPv6 is marked broken and the last call of dns_resolve() made a new
\* resolve, whose AAAA request is in flight.
C29_Witness ==
  /\ dns.dns_is_broken_for_ipv6
  /\ last.op = "dns_resolve" /\ last.ret = 0 /\ last.fault = "ok"
  /\ last.address \in Hostnames
  /\ dns.cache_map[last.address] # 0
  /\ LET r == dns.resolves[dns.cache_map[last.address]]
     IN /\ r.state = "PENDING"
        /\ r.pending_connections = <<last.conn>>
        /\ r.res_status_ipv6 = "INFLIGHT"
        /\ r.res_status_ipv4 = "INFLIGHT"
  /\ dns.queries[<<last.address, "AAAA">>] = 1

\* ------------------------------------------------------------------------
\* Path bias accounting (SpecPathBias).

\* The open circuits of the guard that are counted and have a path state
\* from from to to.
CountedOpen(from, to) ==
  {c \in OpenCircuits : /\ circ[c].pathbias_shouldcount = "COUNTED"
                        /\ circ[c].path_state >= from
                        /\ circ[c].path_state <= to}

\* The step is a call of pathbias_count_build_attempt() for a new circuit
\* that is counted.
AttemptStep ==
  /\ last'.op = "build_attempt"
  /\ circ[last'.circ].path_state = PATH_STATE_NEW_CIRC
  /\ ~circ[last'.circ].has_opened
  /\ circ'[last'.circ].pathbias_shouldcount = "COUNTED"

\* The step is an attempt that scales the counters of the guard.
ScaleStep ==
  /\ AttemptStep /\ last'.ret = 0
  /\ guard.circ_attempts > pb_scalecircs * PbUnit

\* The circuits that are taken out of circ_attempts before it is scaled:
\* those that are open and not used up, and the one of the attempt.
OpenedWeight ==
  PbUnit * (1 + Cardinality(CountedOpen(PATH_STATE_BUILD_ATTEMPTED,
                                        PATH_STATE_USE_FAILED)))

\* The circuits that are taken out of circ_successes before it is scaled.
BuiltWeight ==
  PbUnit * Cardinality(CountedOpen(PATH_STATE_BUILD_SUCCEEDED,
                                   PATH_STATE_USE_FAILED))

\* after = before * pb_multfactor / pb_scalefactor
ScaledFrom(after, before) == after * pb_scalefactor = before * pb_multfactor

\* C21: an attempt that finds circ_attempts above pb_scalecircs multiplies
\* by pb_multfactor/pb_scalefactor the counters of the circuits that are
\* closed: the circuits that are open keep their full weight in
\* circ_attempts and circ_successes; then it counts the attempt.  An attempt
\* that finds circ_attempts at most pb_scalecircs scales nothing.
C21_ScalesClosedCircuits ==
  [][/\ ScaleStep =>
          /\ ScaledFrom(guard'.circ_attempts - PbUnit - OpenedWeight,
                        guard.circ_attempts - OpenedWeight)
          /\ ScaledFrom(guard'.circ_successes - BuiltWeight,
                        guard.circ_successes - BuiltWeight)
          /\ ScaledFrom(guard'.successful_circuits_closed,
                        guard.successful_circuits_closed)
          /\ ScaledFrom(guard'.collapsed_circuits, guard.collapsed_circuits)
          /\ ScaledFrom(guard'.unusable_circuits, guard.unusable_circuits)
          /\ ScaledFrom(guard'.timeouts, guard.timeouts)
     /\ (AttemptStep /\ last'.ret = 0 /\ ~ScaleStep) =>
          /\ guard'.circ_attempts = guard.circ_attempts + PbUnit
          /\ guard'.circ_successes = guard.circ_successes
          /\ guard'.successful_circuits_closed =
               guard.successful_circuits_closed
          /\ guard'.collapsed_circuits = guard.collapsed_circuits
          /\ guard'.unusable_circuits = guard.unusable_circuits]_vars

\* |x|
Abs(x) == IF x < 0 THEN -x ELSE x

\* C21 as stated: circ_successes/circ_attempts after the scaling, before
\* the attempt is counted, is within 1% of what it was.
C21_RatioWithinOnePercent ==
  [][ScaleStep =>
       100 * Abs(guard'.circ_successes * guard.circ_attempts
                   - guard.circ_successes * (guard'.circ_attempts - PbUnit))
         <= guard.circ_attempts * (guard'.circ_attempts - PbUnit)]_vars

\* The last attempt scaled the counters of a guard that had a circuit open
\* and built: its counters are no longer whole numbers.
C21_Witness ==
  /\ last.op = "build_attempt" /\ last.ret = 0
  /\ circ[last.circ].path_state = PATH_STATE_BUILD_ATTEMPTED
  /\ CountedOpen(PATH_STATE_BUILD_SUCCEEDED, PATH_STATE_USE_FAILED) # {}
  /\ guard.circ_attempts > pb_scalecircs * PbUnit
  /\ guard.successful_circuits_closed % PbUnit # 0
  /\ ScaledFrom(guard.successful_circuits_closed,
                GoodGuard.successful_circuits_closed)

\* The close success rate of the guard, over more than pb_mincircs
\* attempts, is below the extreme rate: the circuits that were closed with
\* success and those that are open and built, over circ_attempts.
CloseRateExtreme ==
  /\ guard.circ_attempts > pb_mincircs * PbUnit
  /\ 100 * (guard.successful_circuits_closed
              + PbUnit * Cardinality(CountedOpen(PATH_STATE_BUILD_SUCCEEDED,
                                                 PATH_STATE_USE_SUCCEEDED)))
       < DFLT_PATH_BIAS_EXTREME_PCT * guard.circ_attempts

\* The use success rate of the guard, over more than pb_minuse attempts, is
\* below the extreme rate: the circuits that were used with success and
\* those that are open and in use, over use_attempts.
UseRateExtreme ==
  /\ guard.use_attempts > pb_minuse * PbUnit
  /\ 100 * (guard.use_successes
              + PbUnit * Cardinality(CountedOpen(PATH_STATE_USE_ATTEMPTED,
                                                 PATH_STATE_USE_SUCCEEDED)))
       < DFLT_PATH_BIAS_EXTREME_USE_PCT * guard.use_attempts

\* The step is a call of pathbias_count_use_attempt() for a circuit that is
\* counted, built and not yet used.
UseAttemptStep ==
  /\ last'.op = "use_attempt"
  /\ circ[last'.circ].pathbias_shouldcount = "COUNTED"
  /\ circ[last'.circ].path_state = PATH_STATE_BUILD_SUCCEEDED

\* C26: with PathBiasDropGuards, a build attempt that finds the close rate
\* below the extreme rate, and a use attempt that finds the use rate below
\* the extreme rate, disable the guard; nothing else does, and nothing
\* enables it again.  A build attempt through a guard that is disabled is
\* refused: the call fails and circ_attempts stays.
C26_ExtremeGuardDisabled ==
  [][/\ AttemptStep =>
          /\ guard'.path_bias_disabled =
               \/ guard.path_bias_disabled
               \/ conf.PathBiasDropGuards /\ CloseRateExtreme
          /\ guard'.path_bias_disabled =>
               /\ last'.ret = -END_CIRC_REASON_TORPROTOCOL
               /\ guard'.circ_attempts = guard.circ_attempts
          /\ ~guard'.path_bias_disabled => last'.ret = 0
     /\ UseAttemptStep =>
          guard'.path_bias_disabled =
            \/ guard.path_bias_disabled
            \/ conf.PathBiasDropGuards /\ UseRateExtreme
     /\ ~AttemptStep /\ ~UseAttemptStep =>
          guard'.path_bias_disabled = guard.path_bias_disabled
     /\ guard.path_bias_disabled => guard'.path_bias_disabled]_vars

\* The last build attempt found the guard disabled and was refused.
C26_Witness ==
  /\ guard.path_bias_disabled
  /\ last.op = "build_attempt" /\ last.found
  /\ last.ret = -END_CIRC_REASON_TORPROTOCOL
  /\ circ[last.circ].pathbias_shouldcount = "COUNTED"

\* The step is a call of circuit_mark_for_close() for a circuit that is
\* counted and has path state state.
CloseStepIn(state) ==
  /\ last'.op = "mark_for_close"
  /\ circ[last'.circ].pathbias_shouldcount = "COUNTED"
  /\ circ[last'.circ].path_state = state

\* The step is a relay cell that comes back on a circuit that is probed.
ProbeResponseStep == last'.op = "probe_response"

\* The step counts its circuit as closed and used with success.
CountsSuccess ==
  /\ guard' = [guard EXCEPT !.successful_circuits_closed = @ + PbUnit,
                            !.use_successes = @ + PbUnit]
  /\ circ'[last'.circ].marked_for_close
  /\ circ'[last'.circ].path_state = PATH_STATE_ALREADY_COUNTED

\* The step counts its circuit as one that could not be used.
CountsUseFailure ==
  /\ guard' = [guard EXCEPT !.unusable_circuits = @ + PbUnit]
  /\ circ'[last'.circ].marked_for_close
  /\ circ'[last'.circ].path_state = PATH_STATE_ALREADY_COUNTED

\* The step sends a probe on its circuit and leaves it open.
SendsProbe ==
  /\ guard' = guard
  /\ last'.ret = -1
  /\ ~circ'[last'.circ].marked_for_close
  /\ circ'[last'.circ].path_state = PATH_STATE_USE_ATTEMPTED
  /\ circ'[last'.circ].purpose = "PATH_BIAS_TESTING"
  /\ circ'[last'.circ].pathbias_probe_id = ProbeStreamId
  /\ circ'[last'.circ].pathbias_probe_nonce \in Nonces

\* The cell of the step is the END cell of the probe of the circuit: it is
\* on the stream of the probe, has the EXITPOLICY reason and in full the
\* address that the probe asked for.
EchoesNonce ==
  /\ last'.msg.command = "END" /\ last'.msg.reason = "EXITPOLICY"
  /\ last'.msg.stream_id = circ[last'.circ].pathbias_probe_id
  /\ last'.msg.length >= 9
  /\ last'.msg.host = circ[last'.circ].pathbias_probe_nonce

DanglingBodies ==
  {m \in Mds : /\ cache.map[m].held_in_map
               /\ cache.map[m].body.at = "map"
               /\ cache.map[m].body.map \notin cache.mapped}

\* The last call of microdesc_cache_rebuild() failed after it had unmapped
\* the cache file.
RebuildFailedUnmapped ==
  /\ last.op = "microdesc_cache_rebuild"
  /\ last.ret = -1
  /\ cache.unmapped

\* C22: after a rebuild that fails when the cache file has been unmapped,
\* no microdescriptor in the map has a body in the unmapped region, and
\* none is left as saved in the cache.
C22_FailedRebuildWipesBodies ==
  RebuildFailedUnmapped =>
    /\ DanglingBodies = {}
    /\ \A m \in Mds :
         cache.map[m].held_in_map =>
           cache.map[m].saved_location # "SAVED_IN_CACHE"

\* The last rebuild wrote the new file and could not map it: it has failed
\* and a microdescriptor that was in the old mapping still points there.
C22_DanglingAfterMapFailure ==
  /\ RebuildFailedUnmapped
  /\ last.fault = "mmap"
  /\ DanglingBodies # {}
  /\ cache.cache_content = 0

\* ------------------------------------------------------------------------
\* Streams that are ended before they are open (SpecRetry).

\* The step is the END cell of stream s.
EndStep(s) == last'.op = "end_not_open" /\ last'.conn = s

\* The reason that the step acts on.
EndReason == IF last'.msg.length = 0 THEN "MISC" ELSE last'.msg.reason

\* The step takes the stream from its circuit to wait for another one.
Retried(s) ==
  /\ stream'[s].state = "CIRCUIT_WAIT"
  /\ stream'[s].on_circ = NULL
  /\ ~stream'[s].marked_for_close
  /\ stream'[s].detached = stream[s].detached + 1

\* The step closes the stream.
Closed(s) ==
  /\ stream'[s].marked_for_close
  /\ stream'[s].detached = stream[s].detached

\* The step leaves the failures of all addresses but a as they are, and
\* those of a at n.
FailuresBecome(a, n) == addressmap' = [addressmap EXCEPT ![a] = n]

\* C23: an END cell before the stream is open, on a stream that is not a
\* rendezvous stream: with RESOLVEFAILED, MISC or NOROUTE (or no reason)
\* the failures of the address are counted, the stream is retried while
\* they are below MAX_RESOLVE_FAILURES, and at MAX_RESOLVE_FAILURES the
\* stream is closed and the count cleared; with HIBERNATING or
\* RESOURCELIMIT the stream is retried whatever the count; with EXITPOLICY
\* it is retried unless the address in the cell is refused; with TORPROTOCOL
\* or DESTROY the stream is left to the circuit; with any other reason, and
\* on a rendezvous stream, it is closed.
C23_RetriesByReason ==
  [][\A s \in ApConns :
       EndStep(s) =>
         LET a == stream[s].address
             n == addressmap[a]
             counted == EndReason \in {"RESOLVEFAILED", "MISC", "NOROUTE"}
             tagged == /\ last'.msg.length > 0
                       /\ EndReason \in {"TORPROTOCOL", "DESTROY"}
         IN /\ tagged =>
                 /\ last'.ret = -END_CIRC_REASON_TORPROTOCOL
                 /\ stream' = stream /\ addressmap' = addressmap
            /\ ~tagged => last'.ret = 0
            /\ counted /\ ~stream[s].is_rendezvous =>
                 IF n + 1 < MAX_RESOLVE_FAILURES
                   THEN /\ Retried(s)
                        /\ FailuresBecome(a, n + 1)
                        /\ circ'[stream[s].on_circ].unusable_for_new_conns
                   ELSE Closed(s) /\ FailuresBecome(a, 0)
            /\ /\ EndReason \in {"HIBERNATING", "RESOURCELIMIT"}
               /\ ~stream[s].is_rendezvous
               => Retried(s) /\ addressmap' = addressmap
            /\ EndReason = "EXITPOLICY" /\ ~stream[s].is_rendezvous =>
                 /\ addressmap' = addressmap
                 /\ \/ Retried(s)
                    \/ Closed(s) /\ stream'[s].end_reason = "TORPROTOCOL"
            /\ /\ ~tagged
               /\ stream[s].is_rendezvous
                    \/ ~edge_reason_is_retriable(EndReason)
               => Closed(s) /\ addressmap' = addressmap
            /\ \A b \in ApAddresses :
                 addressmap'[b] < MAX_RESOLVE_FAILURES]_vars

\* C23 as it is stated: a stream is not taken from its circuit to be
\* retried more than MAX_RESOLVE_FAILURES times for one address.
C23_RetriedAtMostThreeTimes ==
  \A s \in ApConns :
    stream[s].address = Hostname =>
      stream[s].detached <= MAX_RESOLVE_FAILURES

\* The third NOROUTE for the hostname has closed the stream, which had been
\* retried twice, and the failures of the hostname are cleared.
C23_Witness ==
  \E s \in ApConns :
    /\ last.op = "end_not_open"
    /\ last.msg.reason = "NOROUTE"
    /\ stream[s].marked_for_close
    /\ stream[s].end_reason = "NOROUTE"
    /\ stream[s].address = Hostname
    /\ stream[s].detached = MAX_RESOLVE_FAILURES - 1
    /\ addressmap[Hostname] = 0

\* ------------------------------------------------------------------------
\* Memory pressure (SpecMemory).

\* The allocation was last found at or above the low threshold within the
\* last MEMORY_PRESSURE_INTERVAL seconds.
PressureWithinInterval ==
  /\ mem.seen_at >= 0
  /\ mem.now - mem.seen_at <= MEMORY_PRESSURE_INTERVAL

\* C24: have_been_under_memory_pressure() returns true exactly when the
\* allocation was last found at or above MaxMemInQueues_low_threshold
\* within the last MEMORY_PRESSURE_INTERVAL seconds.
C24_TrueWithinInterval ==
  last.op = "have_been_under_memory_pressure" =>
    (last.ret <=> PressureWithinInterval)

\* The allocation has been found above the low threshold in this very
\* second, and have_been_under_memory_pressure() returns false.
C24_FalseUnderPressure ==
  /\ last.op = "have_been_under_memory_pressure"
  /\ mem.seen_at = mem.now
  /\ mem.last_time_under_memory_pressure = mem.now
  /\ ~last.ret

\* ------------------------------------------------------------------------
\* The Extended ORPort handshake (SpecExtOr).

\* The client has chosen the cookie authentication, has sent a whole nonce
\* and has answered with the client hash of its nonce and of the nonce of
\* the server.
Authenticated ==
  /\ or_conn.auth_type = Byte(EXT_OR_AUTHTYPE_SAFECOOKIE)
  /\ Len(or_conn.client_nonce) = EXT_OR_PORT_AUTH_NONCE_LEN
  /\ Len(or_conn.server_nonce) = EXT_OR_PORT_AUTH_NONCE_LEN
  /\ or_conn.hash_received =
       ExtOrHmac(ClientLabel, or_conn.client_nonce, or_conn.server_nonce)

\* The connection is open or has been, or a command has been processed.
HasBeenOpen ==
  \/ or_conn.state \in {"OPEN", "FLUSHING"}
  \/ or_conn.type = "OR"
  \/ or_conn.addr # NULL
  \/ or_conn.ext_or_transport # NULL
  \/ or_conn.handshake_started

\* The step is a call of connection_ext_or_process_inbuf().
ProcessInbufStep == last'.op = "connection_ext_or_process_inbuf"

\* The server waits for the auth type and the next byte is another one.
WrongAuthType ==
  /\ or_conn.state = "AUTH_WAIT_AUTH_TYPE"
  /\ or_conn.inbuf # <<>>
  /\ Head(or_conn.inbuf) # Byte(EXT_OR_AUTHTYPE_SAFECOOKIE)

\* The server waits for the client hash and the next bytes are not it.
WrongClientHash ==
  /\ or_conn.state = "AUTH_WAIT_CLIENT_HASH"
  /\ Len(or_conn.inbuf) >= EXT_OR_PORT_AUTH_HASH_LEN
  /\ Take(or_conn.inbuf, EXT_OR_PORT_AUTH_HASH_LEN)
       # ExtOrHmac(ClientLabel, or_conn.client_nonce, or_conn.server_nonce)

\* C25: a connection is open, and its commands are processed, only after
\* the client has chosen auth type 1, sent a whole nonce and answered with
\* the right client hash; a wrong auth type marks the connection for close
\* with nothing written, and a wrong client hash makes the server write the
\* status byte 0 and mark the connection for close.
C25_OpenOnlyAuthenticated ==
  [][/\ HasBeenOpen' => Authenticated'
     /\ ProcessInbufStep /\ WrongAuthType =>
          /\ or_conn'.marked_for_close
          /\ or_conn'.outbuf = or_conn.outbuf
          /\ or_conn'.state = "AUTH_WAIT_AUTH_TYPE"
          /\ last'.ret = -1
     /\ ProcessInbufStep /\ WrongClientHash =>
          /\ or_conn'.marked_for_close
          /\ or_conn'.outbuf = Append(or_conn.outbuf, Byte(0))
          /\ or_conn'.state = "AUTH_WAIT_CLIENT_HASH"
          /\ last'.ret = -1]_vars

\* The handshake has succeeded, USERADDR, TRANSPORT and DONE have been
\* processed and the connection has become an OR connection.
C25_Witness ==
  /\ Authenticated
  /\ or_conn.type = "OR"
  /\ or_conn.addr = "1.2.3.4:5678"
  /\ or_conn.ext_or_transport = "rfc1149"
  /\ or_conn.outbuf[Len(or_conn.outbuf)] = <<"cmd", "OKAY", TRUE>>

\* ------------------------------------------------------------------------
\* The DNS cache when memory is low (SpecOom, SpecOomFair).

\* dns_cache_handle_oom() is in its loop.
OomRunning == mem.pc = "loop"

\* C31: dns_cache_handle_oom() is called when the DNS cache is above a fifth
\* of MaxMemInQueues, to free all above a tenth; each pass of its loop that
\* does not leave it advances the cutoff by MAX_DNS_TTL/4; the loop is left
\* only when the bytes asked for are freed or the cache map is empty; and
\* the loop is always left.
C31_OomLoopTerminates ==
  /\ [][/\ ~OomRunning /\ OomRunning' =>
             /\ dns_cache_total_allocation(dns) > MaxMemInQueues \div 5
             /\ mem'.min_remove_bytes =
                  dns_cache_total_allocation(dns) - MaxMemInQueues \div 10
             /\ mem'.time_inc = 0 /\ mem'.total_bytes_removed = 0
        /\ OomRunning =>
             /\ mem'.total_bytes_removed =
                  mem.total_bytes_removed
                    + CachedResolveSize
                        * (dns_cache_entry_count(dns)
                             - dns_cache_entry_count(dns'))
             /\ \A a \in Hostnames :
                  /\ dns.cache_map[a] # 0
                  /\ dns.resolves[dns.cache_map[a]].expire
                       <= mem.now + mem.time_inc
                  => dns'.cache_map[a] = 0
        /\ OomRunning /\ OomRunning' =>
             /\ mem'.time_inc = mem.time_inc + MAX_DNS_TTL \div 4
             /\ mem'.total_bytes_removed < mem.min_remove_bytes
             /\ dns_cache_entry_count(dns) > 0
        /\ OomRunning /\ ~OomRunning' =>
             /\ last'.ret = mem'.total_bytes_removed
             /\ \/ mem'.total_bytes_removed >= mem.min_remove_bytes
                \/ dns_cache_entry_count(dns') = 0]_vars
  /\ OomRunning ~> ~OomRunning

\* dns_cache_handle_oom() has returned after three passes, of which the
\* last one has purged a record that was not due at the time of the call.
C31_Witness ==
  /\ last.op = "dns_cache_handle_oom"
  /\ last.returned
  /\ last.cutoff >= mem.now + 2 * (MAX_DNS_TTL \div 4)
  /\ last.ret >= mem.min_remove_bytes
  /\ dns_cache_entry_count(dns) = 0

\* ---------------------------------------------------------------------
\* Properties of the randomness epochs (SpecRandomness).
\* ---------------------------------------------------------------------

\* The values circuit_reset_sendme_randomness() draws for the counter:
\* CIRCWINDOW_INCREMENT/2 to CIRCWINDOW_INCREMENT-1, the increment being even
\* in the program.
DrawnLengths ==
  {RandomnessIncrement \div 2 + rnd :
     rnd \in FastRngUint(RandomnessIncrement \div 2)}

\* A call of connection_edge_get_inbuf_bytes_to_package() has packaged a
\* cell in this step.
PackagedStep == last'.op = "connection_edge_get_inbuf_bytes_to_package" /\ last'.ret > 0

\* The step packages the last cell of an epoch.
EpochEnds == PackagedStep /\ last'.reset

\* What holds of every epoch: a cell of the epoch left room for the random
\* bytes, the last cell being forced short when none did; the flag is set
\* when the counter is found at 0; the counter is never decremented at 0.
EpochHasRandomCell ==
  /\ PackagedStep =>
       /\ ~last'.underflow
       /\ last'.assert_ok
       /\ circ'.send_randomness_after_n_cells < RandomnessIncrement
       /\ last'.forced =>
            /\ last'.reset
            /\ ~circ.short_in_epoch
            /\ last'.free >= RELAY_CELL_PADDING_GAP + RandomPaddingLen
       /\ last'.ended.short_in_epoch =
            (circ.short_in_epoch
               \/ last'.free >= RELAY_CELL_PADDING_GAP + RandomPaddingLen)
  /\ EpochEnds =>
       /\ last'.ended.short_in_epoch
       /\ last'.ended.have_sent_sufficiently_random_cell
       /\ last'.ended.epoch_drawn \in DrawnLengths
       /\ ~circ'.have_sent_sufficiently_random_cell
       /\ circ'.cells_in_epoch = 0

\* C32 as stated: every epoch has a length in packaged DATA cells between
\* CIRCWINDOW_INCREMENT/2 and CIRCWINDOW_INCREMENT-1 and contains a cell that
\* leaves RELAY_CELL_PADDING_GAP+16 bytes free; the flag is set whenever the
\* counter is found at 0 and the counter never underflows.
C32_EpochLengthAsDrawn ==
  [][/\ EpochHasRandomCell
     /\ EpochEnds =>
          last'.ended.cells_in_epoch \in DrawnLengths]_vars

\* C32: every epoch contains a cell that leaves RELAY_CELL_PADDING_GAP+16
\* bytes free, the last one being forced short if no earlier one was; the
\* flag is set whenever the counter is found at 0 and the counter never
\* underflows.  An epoch started by an earlier cell has as many cells as the
\* value drawn, between CIRCWINDOW_INCREMENT/2 and CIRCWINDOW_INCREMENT-1; the
\* epoch started when the circuit was initialised has one cell more.
C32_EpochsHaveRandomCell ==
  [][/\ EpochHasRandomCell
     /\ EpochEnds =>
          last'.ended.cells_in_epoch =
            last'.ended.epoch_drawn
              + (IF last'.ended.epochs = 1 THEN 1 ELSE 0)]_vars

\* The last cell of a later epoch of the longest length has been forced
\* short.
C32_Witness ==
  /\ last.op = "connection_edge_get_inbuf_bytes_to_package"
  /\ last.reset /\ last.forced
  /\ last.ended.epochs > 1
  /\ \A n \in DrawnLengths : n <= last.ended.cells_in_epoch

\* The first epoch of a circuit has ended with CIRCWINDOW_INCREMENT cells.
C32_FirstEpochLonger ==
  /\ last.op = "connection_edge_get_inbuf_bytes_to_package"
  /\ last.reset
  /\ last.ended.epochs = 1
  /\ last.ended.cells_in_epoch \notin DrawnLengths

\* ---------------------------------------------------------------------
\* The cell counts of the cmux (SpecQueue).
\* ---------------------------------------------------------------------

\* The cmux holds, for both queues of circuit c, the length of the queue.
CmuxMatchesQueues(c) ==
  \A direction \in {"OUT", "IN"} :
    cmux[c][direction] = Len(circ[c][QueueOf(direction)])

SendmesSentInCall ==
  circ[last.circ].n_sendme_sent - last.pre.n_sendme_sent

\* The growth of the deliver window in the loop of
\* sendme_circuit_consider_sending() in the last call: the window was
\* decremented once for the DATA cell before the loop.
GrowthInCall ==
  deliver_window_of(World, last.circ, last.cell.layer_hint)
    - (last.pre.deliver_window - 1)

\* C34: a call of sendme_circuit_consider_sending() for a DATA cell goes
\* through its loop at most once and so sends at most one circuit-level
\* SENDME, the deliver window being above CIRCWINDOW_START - increment and at
\* most CIRCWINDOW_START before the cell and after it.
C34_AtMostOneSendmePerCall ==
  DataDelivered =>
    /\ last.pre.deliver_window > CIRCWINDOW_START - sendme_get_inc_count
    /\ last.pre.deliver_window <= CIRCWINDOW_START
    /\ GrowthInCall \in {0, sendme_get_inc_count}
    /\ SendmesSentInCall \in {0, 1}
    /\ SendmesSentInCall = 1 => GrowthInCall = sendme_get_inc_count
    /\ GrowthInCall = sendme_get_inc_count =>
         last.pre.deliver_window - 1 = CIRCWINDOW_START - sendme_get_inc_count

\* A DATA cell has brought the deliver window to CIRCWINDOW_START less the
\* increment and one SENDME has been sent for it.
C34_Witness ==
  /\ DataDelivered
  /\ SendmesSentInCall = 1
  /\ GrowthInCall = sendme_get_inc_count
  /\ deliver_window_of(World, last.circ, last.cell.layer_hint)
       = CIRCWINDOW_START

\* ---------------------------------------------------------------------
\* The tags kept for the SENDMEs expected (Spec).
\* ---------------------------------------------------------------------

\* The SENDMEs still expected for a package window: one for each whole
\* increment of DATA cells packaged and not yet acknowledged.
SendmesExpectedFor(window) ==
  (CIRCWINDOW_START - window) \div CIRCWINDOW_INCREMENT

\* The SENDMEs circuit c still expects: from the other end of an
\* or_circuit_t, from each hop of an origin_circuit_t.
SendmesExpected(c) ==
  IF circ[c].is_origin
    THEN SendmesExpectedFor(hop["h1"].package_window)
           + SendmesExpectedFor(hop["h2"].package_window)
    ELSE SendmesExpectedFor(circ[c].package_window)

\* The package windows of circuit c.
PackageWindowsOf(c) ==
  IF circ[c].is_origin THEN {hop[h].package_window : h \in Hops}
                       ELSE {circ[c].package_window}

\* C35: on an open circuit the list sendme_last_digests holds one tag for
\* each SENDME still expected for the DATA cells sent, never more than
\* CIRCWINDOW_START / CIRCWINDOW_INCREMENT, and so it is not empty when a
\* SENDME arrives that the peer was entitled to send.
C35_OneTagPerExpectedSendme ==
  \A c \in conf.circuits :
    ~circ[c].marked_for_close =>
      /\ Len(circ[c].sendme_last_digests) = SendmesExpected(c)
      /\ Len(circ[c].sendme_last_digests)
           <= CIRCWINDOW_START \div CIRCWINDOW_INCREMENT
      /\ (\E window \in PackageWindowsOf(c) :
            window <= CIRCWINDOW_START - CIRCWINDOW_INCREMENT)
           => circ[c].sendme_last_digests # <<>>

\* A SENDME has been accepted on a circuit that held the most tags a window
\* allows, and has taken the oldest of them.
C35_Witness ==
  /\ Received /\ last.cell.command = "SENDME" /\ last.valid
  /\ ~circ[last.circ].marked_for_close
  /\ last.pre.n_digests = CIRCWINDOW_START \div CIRCWINDOW_INCREMENT
  /\ Len(circ[last.circ].sendme_last_digests) = last.pre.n_digests - 1

\* ---------------------------------------------------------------------
\* Consistency of the DNS cache (SpecDns).
\* ---------------------------------------------------------------------

\* The records in the cache map.
InCacheMap == {dns.cache_map[a] : a \in Hostnames} \ {0}

\* The records the map of d holds after purge_expired_resolves(now) that a
\* lookup made then would find expired.
FoundExpired(d, now) ==
  UNION {{a \in Hostnames :
            /\ d1.cache_map[a] # 0
            /\ d1.resolves[d1.cache_map[a]].expire <= now} :
           d1 \in {purge_expired_resolves(d, now)}}

\* C36: between events every record in the cache map is PENDING or CACHED,
\* is the record of its address and is in the expiry queue; only PENDING
\* records have pending connections; and after purge_expired_resolves(now)
\* the map holds no record with expire <= now, so that the assertion after
\* the lookup of dns_resolve_impl() holds.
C36_CacheConsistent ==
  /\ \A a \in Hostnames :
       dns.cache_map[a] # 0 =>
         /\ dns.resolves[dns.cache_map[a]].state \in {"PENDING", "CACHED"}
         /\ dns.resolves[dns.cache_map[a]].address = a
         /\ dns.resolves[dns.cache_map[a]].queued
  /\ \A i \in ResolveIds :
       /\ dns.resolves[i].state = "DONE" => i \notin InCacheMap
       /\ dns.resolves[i].pending_connections # <<>> =>
            dns.resolves[i].state = "PENDING"
  /\ FoundExpired(dns, dns.now) = {}

\* A connection has asked for an address whose cached record was still good
\* while the map also holds a pending record and the expiry queue a record
\* that is done.
C36_Witness ==
  /\ last.op = "dns_resolve"
  /\ \E i \in InCacheMap : dns.resolves[i].state = "CACHED"
  /\ \E i \in InCacheMap :
       /\ dns.resolves[i].state = "PENDING"
       /\ dns.resolves[i].pending_connections # <<>>
  /\ \E i \in ResolveIds :
       dns.resolves[i].state = "DONE" /\ dns.resolves[i].queued

\* ---------------------------------------------------------------------
\* Time-out of the pending resolves (SpecOom).
\* ---------------------------------------------------------------------

\* C37 as stated: a connection waiting on a pending resolve gets END(TIMEOUT)
\* no earlier than RESOLVE_MAX_TIMEOUT after the resolve was created, which
\* is the time the resolve is due, also when the out-of-memory handler of the
\* cache purges with an advanced cutoff.
C37_NoTimeoutBeforeDue ==
  [][\A i \in ResolveIds :
       \A e \in PendingOn(dns, i) :
         (dns.resolves[i].state = "PENDING" /\ dns'.sent[e] = EndTimeout)
           => dns.resolves[i].expire <= dns.now]_vars

\* A pass of dns_cache_handle_oom() with a cutoff after the present time has
\* ended a waiting connection with END(TIMEOUT): its resolve was not yet
\* due, the passes before having purged all that was.
C37_TimeoutBeforeDue ==
  /\ last.op = "dns_cache_handle_oom"
  /\ last.cutoff > dns.now
  /\ \E e \in ConnSet :
       /\ dns.sent[e] = EndTimeout
       /\ dns.conn[e].freed

\* ---------------------------------------------------------------------
\* Answers that come late (SpecDns).
\* ---------------------------------------------------------------------

\* The step is a call of evdns_callback().
CallbackStep == last'.op = "evdns_callback"

\* The step changes no cache record and wakes or ends no connection.
AnswerIgnored ==
  /\ dns'.resolves = dns.resolves
  /\ dns'.cache_map = dns.cache_map
  /\ dns'.conn = dns.conn
  /\ \A e \in ConnSet : dns'.sent[e] = <<>>

\* The map holds no pending resolve for the address: the resolve was
\* cancelled or purged, or its answers are cached.
NoPendingResolve(a) ==
  \/ dns.cache_map[a] = 0
  \/ dns.resolves[dns.cache_map[a]].state # "PENDING"

\* The pending resolve of the address is past its expiry time and not yet
\* purged.
PendingExpired(a) ==
  /\ dns.cache_map[a] # 0
  /\ dns.resolves[dns.cache_map[a]].state = "PENDING"
  /\ dns.resolves[dns.cache_map[a]].expire <= dns.now

\* C38 as stated: an answer for an address whose resolve was cancelled, has
\* expired or is cached changes no cache record and wakes or ends no
\* connection.
C38_LateAnswerIgnored ==
  [][(/\ CallbackStep
      /\ NoPendingResolve(last'.address) \/ PendingExpired(last'.address))
       => AnswerIgnored]_vars

\* C38: an answer for an address that has no pending resolve in the map, as
\* after a cancel for a failed AAAA launch, after a purge or once the answers
\* are cached, changes no cache record and wakes or ends no connection; an
\* answer for an address with a pending resolve in the map that waits for an
\* answer of that type is taken, whatever the expiry time of the resolve.
C38_AnswerWithoutPendingIgnored ==
  [][/\ (CallbackStep /\ NoPendingResolve(last'.address)) => AnswerIgnored
     /\ \A i \in ResolveIds :
          (AnswerStep(i) /\ StatusOf(dns.resolves[i], last'.type) = "INFLIGHT")
            => StatusOf(dns'.resolves[i], last'.type)
                 \in {"DONE_OK", "DONE_ERR"}]_vars

\* An A answer has arrived for a resolve that was cancelled because its AAAA
\* request could not be launched: the resolve waits in the expiry queue as
\* it was and the map has no record for the address.
C38_Witness ==
  /\ last.op = "evdns_callback" /\ last.type = "A"
  /\ dns.cache_map[last.address] = 0
  /\ dns.queries[<<last.address, "A">>] = 0
  /\ \E i \in ResolveIds :
       /\ dns.resolves[i].address = last.address
       /\ dns.resolves[i].state = "DONE"
       /\ dns.resolves[i].queued
       /\ dns.resolves[i].res_status_ipv4 = "INFLIGHT"
       /\ dns.resolves[i].res_status_ipv6 = "0"
  /\ \A e \in ConnSet : dns.sent[e] = <<>>

\* An answer has arrived for a pending resolve past its expiry time and has
\* been taken.
C38_ExpiredAnswered ==
  /\ last.op = "evdns_callback"
  /\ dns.cache_map[last.address] # 0
  /\ dns.resolves[dns.cache_map[last.address]].state = "CACHED"
  /\ \E i \in ResolveIds :
       /\ dns.resolves[i].address = last.address
       /\ dns.resolves[i].state = "DONE"
       /\ dns.resolves[i].queued
       /\ dns.resolves[i].expire <= dns.now

\* ------------------------------------------------------------------------
\* The success counters against the attempt counters (SpecPathBiasUsed).

\* C39 as stated: between events the guard has no more circuit successes
\* than circuit attempts, and no more use successes than use attempts.
C39_SuccessesWithinAttempts ==
  /\ guard.circ_successes <= guard.circ_attempts
  /\ guard.use_successes <= guard.use_attempts

\* A counter of the guard is no longer a whole count: it was scaled.
WasScaled(count) == count % PbUnit # 0

\* The second circuit of a guard at the threshold has just been counted as
\* an attempt: the counters for closed circuits were scaled in that call,
\* when the circuit was in state BUILD_ATTEMPTED and not yet in
\* circ_attempts, and the first circuit is still open.
C39_Witness ==
  /\ last.op = "build_attempt" /\ last.ret = 0
  /\ next_id = 3
  /\ \A c \in PbCircs : circ[c].exists /\ ~circ[c].marked_for_close
  /\ \A c \in PbCircs : circ[c].pathbias_shouldcount = "COUNTED"
  /\ circ[last.circ].path_state = PATH_STATE_BUILD_ATTEMPTED
  /\ \A c \in PbCircs : circ[c].path_state >= PATH_STATE_BUILD_ATTEMPTED
  /\ guard.circ_attempts > pb_scalecircs * PbUnit
  /\ WasScaled(guard.successful_circuits_closed)
  /\ guard.circ_successes <= guard.circ_attempts

\* The use counters were scaled while a circuit was in use, and circuits
\* that were used with success have been closed since.
C39_UseScaled ==
  /\ last.op = "mark_for_close"
  /\ WasScaled(guard.use_successes)
  /\ guard.use_successes > Scaled(pb_scaleuse * PbUnit)
  /\ guard.use_successes <= guard.use_attempts

\* ------------------------------------------------------------------------
\* A circuit is counted once (SpecPathBiasOnce).

\* Circuit c is the same circuit before and after the step.
SameCircuit(c) == circ[c].exists /\ circ'[c].exists

\* The step is a call for circuit c that takes it from a path state in from
\* to a path state in to.
Moved(c, from, to) ==
  /\ c \in PbCircs
  /\ SameCircuit(c)
  /\ circ[c].path_state \in from
  /\ circ'[c].path_state \in to

PathStates == PATH_STATE_NEW_CIRC .. PATH_STATE_ALREADY_COUNTED

\* The path state of a circuit moves forward, or back from USE_SUCCEEDED to
\* USE_ATTEMPTED in pathbias_mark_use_rollback().
PathStateForward ==
  \A c \in PbCircs :
    SameCircuit(c) =>
      \/ circ'[c].path_state >= circ[c].path_state
      \/ /\ last'.op = "use_rollback" /\ last'.circ = c
         /\ Moved(c, {PATH_STATE_USE_SUCCEEDED}, {PATH_STATE_USE_ATTEMPTED})

\* The step counts its circuit as an attempt to build.
CountsBuildAttempt ==
  Moved(last'.circ, {PATH_STATE_NEW_CIRC}, {PATH_STATE_BUILD_ATTEMPTED})

\* The step counts its circuit as an attempt to use.
CountsUseAttempt ==
  Moved(last'.circ, {PATH_STATE_BUILD_SUCCEEDED},
        PATH_STATE_USE_ATTEMPTED .. PATH_STATE_ALREADY_COUNTED)

\* The step counts its circuit as closed.
CountsClose ==
  Moved(last'.circ, PathStates \ {PATH_STATE_ALREADY_COUNTED},
        {PATH_STATE_ALREADY_COUNTED})

\* Counter f of the guard gets one circuit more in the step.
OneMore(f) == guard'[f] = guard[f] + PbUnit

\* A counter of the guard changes only in a step that takes the circuit of
\* the step, which is counted, over the one place in the order of the path
\* states that belongs to the counter, or in a step that scales the
\* counter; where nothing is scaled the counter gets one circuit more.
CountedOnceStep ==
  /\ guard' # guard =>
       /\ last'.circ \in PbCircs
       /\ circ'[last'.circ].pathbias_shouldcount = "COUNTED"
  /\ guard'.circ_attempts # guard.circ_attempts =>
       /\ CountsBuildAttempt
       /\ guard.circ_attempts <= pb_scalecircs * PbUnit =>
            OneMore("circ_attempts")
  /\ guard'.circ_successes # guard.circ_successes =>
       \/ /\ Moved(last'.circ, {PATH_STATE_BUILD_ATTEMPTED},
                   {PATH_STATE_BUILD_SUCCEEDED})
          /\ OneMore("circ_successes")
       \/ CountsBuildAttempt /\ guard.circ_attempts > pb_scalecircs * PbUnit
  /\ guard'.use_attempts # guard.use_attempts =>
       /\ CountsUseAttempt
       /\ guard.use_attempts <= pb_scaleuse * PbUnit =>
            OneMore("use_attempts")
  /\ guard'.use_successes # guard.use_successes =>
       \/ CountsClose /\ OneMore("use_successes")
       \/ CountsUseAttempt /\ guard.use_attempts > pb_scaleuse * PbUnit
  /\ \A f \in {"successful_circuits_closed", "collapsed_circuits",
               "unusable_circuits"} :
       guard'[f] # guard[f] =>
         \/ CountsClose /\ OneMore(f)
         \/ CountsBuildAttempt
              /\ guard.circ_attempts > pb_scalecircs * PbUnit

\* A circuit that pathbias_should_count() has ignored stays ignored, and a
\* call for it changes no counter.
IgnoredStays ==
  /\ \A c \in PbCircs :
       SameCircuit(c) /\ circ[c].pathbias_shouldcount = "IGNORED" =>
         circ'[c].pathbias_shouldcount = "IGNORED"
  /\ (/\ last'.circ \in PbCircs
      /\ circ[last'.circ].exists
      /\ circ[last'.circ].pathbias_shouldcount = "IGNORED") =>
       guard' = guard

\* The step calls pathbias_check_close() for a circuit that it was called
\* for before: the first call has sent the probe of the circuit.
SecondCheckClose ==
  /\ \/ last'.op = "mark_for_close"
     \/ last'.op = "probe_response" /\ last'.ret = 0
  /\ circ[last'.circ].purpose = "PATH_BIAS_TESTING"
  /\ circ[last'.circ].pathbias_probe_id # 0

\* The step has left its circuit in state ALREADY_COUNTED.
LeftCounted ==
  /\ last'.op \in {"mark_for_close", "probe_response", "end_not_open"}
  /\ circ'[last'.circ].path_state = PATH_STATE_ALREADY_COUNTED

\* pathbias_check_close() for the circuit of the step, after the step and
\* with any reason, changes nothing and asks for no probe.  The circuit is
\* not in a state in which a probe is sent or the channel is looked at.
CheckCloseChangesNothing ==
  \E w1 \in {Pb'}, c \in {last'.circ} :
    \A reason \in CloseReasons :
      \E w2 \in {pathbias_check_close(w1, c, reason, TRUE, "ok",
                                      "0.0.0.1")} :
        w2.guard = w1.guard /\ w2.circ = w1.circ /\ w2.ret = 0

====
